---------------------------- MODULE Spec2Model ----------------------------
(***************************************************************************)
(* A model of the SQL store layer: the team-membership role resolver       *)
(* (getTeamRoles / ToModel), SqlTeamStore.SaveMultipleMembers,             *)
(* SqlTeamStore.MigrateTeamMembers, SqlSystemStore.InsertIfExists and the  *)
(* optimistic updates of SqlJobStore.                                      *)
(*                                                                         *)
(* Each store is checked under a specification of its own (SpecRoles,      *)
(* SpecSave, SpecMigrate, SpecSystem, SpecJobs); the variables of the      *)
(* stores a specification does not exercise stay at their idle values.     *)
(*                                                                         *)
(* Strings that the code splits and joins (the Roles column) are sequences *)
(* of atoms: a role token, or the single blank SP. Identifiers (TeamId,    *)
(* UserId, job ids) are positive integers ordered as the ids are; 0 stands *)
(* for the minimal cursor.                                                 *)
(***************************************************************************)
EXTENDS Integers, Sequences, FiniteSets, TLC

VARIABLES
    \* --- role resolver (getTeamRoles) ---
    rolesPc,        \* "off" | "call" | "done"
    rolesIn,        \* the arguments of the call
    rolesOut,       \* the rolesInfo returned
    \* --- the TeamMembers table ---
    teamMembers,    \* (TeamId, UserId) -> the row, or NoRow
    \* --- the caller's loop over MigrateTeamMembers ---
    migPc,          \* "off" | "loop" | "done"
    migCursor,      \* the (TeamId, UserId) the next call is given
    migLast,        \* what the last call returned: [data, err]
    migVisited,     \* the keys of the rows of the committed batches, in order
    migFaults,      \* database failures met so far
    \* --- one call of SaveMultipleMembers ---
    activeUsers,    \* the UserIds whose Users row has DeleteAt = 0
    savePc,         \* "off" | "call" | "returned"
    saveArgs,       \* [members, maxUsersPerTeam]
    saveRet,        \* what the call returned: [members, err]
    saveBefore,     \* TeamMembers as the call found it
    \* --- concurrent calls of InsertIfExists for one Name ---
    systems,        \* the Systems row of the Name, or Absent
    systemsAtStart, \* systems before the first call
    sysPc,          \* per caller: "off", "begin", "selected", "inserted", "done"
    sysArg,         \* per caller: system.Value
    sysOrig,        \* per caller: origSystem as SelectOne left it, and whether a row was found
    sysInsertTried, \* per caller: whether the call executed tx.Insert
    sysRet,         \* per caller: what the call returned: [system, err]
    \* --- the Jobs table and the optimistic updates ---
    jobs,           \* job id -> the row, or NoJob
    jobClock,       \* model.GetMillis() at the last call
    jobCalls,       \* the calls made so far
    jobCall,        \* the last call: its operation and arguments
    jobLog,         \* every call so far: its job id, statuses and whether it returned true
    jobRet,         \* what the last call returned: [ok, err]
    jobsBefore,     \* jobs as the last call found it
    \* --- the Teams table: Save, Update, the lookups, PermanentDelete ---
    teams,          \* team id -> the row, or NoTeam
    teamClock,      \* model.GetMillis() at the last write
    teamCalls,      \* the calls made so far
    teamDeletes,    \* the PermanentDelete calls of the other session so far
    teamPc,         \* "off", "idle", or "update_write": Update between its Get and its UPDATE
    teamCall,       \* the last call: its operation and arguments
    teamOld,        \* Update: the row its Get returned
    teamRet,        \* what the last call returned: [team, err]
    teamsBefore,    \* teams as the last call found it
    teamStmts,      \* the statements the last call has issued
    teamCount,      \* Update: the rows its UPDATE affected, -1 before it
    \* --- the Preferences table: Save, GetCategory ---
    prefs,          \* the committed rows of Preferences
    prefTx,         \* the rows as the open transaction of Save sees them
    prefPc,         \* "off", "begin", "loop", "commit" or "done"
    prefIdx,        \* Save: the preference of the batch that is saved next
    prefArgs,       \* Save: [preferences, driver]
    prefRet,        \* what Save returned: the error, or NIL
    prefsBefore,    \* prefs as Save found it
    prefStmts,      \* the statements Save has issued in its transaction
    prefGot,        \* what the last GetCategory returned: [userId, category, rows]
    \* --- the Status table: SaveOrUpdate, Get ---
    statusRows,     \* the rows of Status
    stDriver,       \* the driver of the database
    stPc,           \* per caller: "off", "call", "update", "insert" or "done"
    stArg,          \* per caller: the status value it saves
    stRet,          \* per caller: the error SaveOrUpdate returned, or NIL
    stOrder,        \* the callers in the order their calls returned
    stOverlap,      \* a call started while another call was under way
    stGot,          \* the last Get: [status, err, after]
    \* --- UpdateMultipleMembers (on teamMembers) ---
    updPc,          \* "off", "loop", "roles" or "returned"
    updArgs,        \* the members of the call
    updIdx,         \* the member the loop turns to next
    updRet,         \* what the call returned: [members, err]
    updBefore,      \* teamMembers as the call found it
    updStmts,       \* the statements the call has issued
    \* --- concurrent calls of SaveMultipleMembers (on teamMembers) ---
    racePc,         \* per caller: "off", "call", "insert" or "done"
    raceArgs,       \* per caller: the members of its call
    raceLimit,      \* the maxUsersPerTeam of every call
    raceRet,        \* per caller: the error its call returned, or NIL
    \* --- GetMembers with view restrictions ---
    viewPc,         \* "off", "call" or "done"
    viewIn,         \* the team id, the restrictions and the tables queried
    viewOut,        \* the user ids of the rows the query returned
    \* --- ClearAllCustomRoleAssignments (on teamMembers) ---
    clrPc,          \* "off", "begin", "batch", "commit" or "done"
    clrCursor,      \* <<lastTeamId, lastUserId>>
    clrTx,          \* TeamMembers as the current transaction sees it
    clrNext,        \* the transactions begun so far; the current one is the last
    clrOpen,        \* the transactions begun and neither committed nor rolled back
    clrDeferred,    \* the transactions with a deferred finalizeTransaction
    clrRet,         \* the error returned, or NIL
    clrBefore       \* TeamMembers as the call found it

varsRoles == <<rolesPc, rolesIn, rolesOut>>
varsMig == <<teamMembers, migPc, migCursor, migLast, migVisited, migFaults>>
varsSave == <<activeUsers, savePc, saveArgs, saveRet, saveBefore>>
varsSys == <<systems, systemsAtStart, sysPc, sysArg, sysOrig, sysInsertTried, sysRet>>
varsJobs == <<jobs, jobClock, jobCalls, jobCall, jobLog, jobRet, jobsBefore>>
varsPrefs == <<prefs, prefTx, prefPc, prefIdx, prefArgs, prefRet, prefsBefore, prefStmts, prefGot>>
varsStatus == <<statusRows, stDriver, stPc, stArg, stRet, stOrder, stOverlap, stGot>>
varsUpd == <<updPc, updArgs, updIdx, updRet, updBefore, updStmts>>
varsRace == <<racePc, raceArgs, raceLimit, raceRet>>
varsView == <<viewPc, viewIn, viewOut>>
varsClear == <<clrPc, clrCursor, clrTx, clrNext, clrOpen, clrDeferred, clrRet, clrBefore>>
varsTeams == <<teams, teamClock, teamCalls, teamDeletes, teamPc, teamCall, teamOld, teamRet, teamsBefore, teamStmts, teamCount>>

vars == <<varsRoles, varsMig, varsSave, varsSys, varsJobs, varsTeams, varsPrefs, varsStatus, varsUpd, varsRace, varsView, varsClear>>

---------------------------------------------------------------------------
(* Go values *)

NIL == "nil"

\* model.TEAM_GUEST_ROLE_ID, model.TEAM_USER_ROLE_ID, model.TEAM_ADMIN_ROLE_ID
TEAM_GUEST_ROLE_ID == "team_guest"
TEAM_USER_ROLE_ID == "team_user"
TEAM_ADMIN_ROLE_ID == "team_admin"

SchemeRoleIds == {TEAM_GUEST_ROLE_ID, TEAM_USER_ROLE_ID, TEAM_ADMIN_ROLE_ID}

\* The blank of a stored Roles string.
SP == " "

\* Whether x occurs in the sequence s.
Contains(s, x) == \E i \in 1..Len(s) : s[i] = x

\* How often x occurs in the sequence s.
RECURSIVE Count(_, _)
Count(s, x) ==
    IF s = <<>> THEN 0
    ELSE (IF Head(s) = x THEN 1 ELSE 0) + Count(Tail(s), x)

\* No element occurs twice in s.
NoDuplicates(s) == \A i, j \in 1..Len(s) : s[i] = s[j] => i = j

\* All sequences over S of length at most n.
SeqsUpTo(S, n) == UNION {[1..k -> S] : k \in 0..n}

\* strings.Fields: the maximal runs of non-blank atoms, in order. A stored
\* string holds a blank between any two tokens, so every run is one token.
RECURSIVE Fields(_)
Fields(str) ==
    IF str = <<>> THEN <<>>
    ELSE IF Head(str) = SP THEN Fields(Tail(str))
    ELSE <<Head(str)>> \o Fields(Tail(str))

\* strings.Join(tokens, " ")
RECURSIVE Join(_)
Join(tokens) ==
    IF tokens = <<>> THEN <<>>
    ELSE IF Len(tokens) = 1 THEN <<Head(tokens)>>
    ELSE <<Head(tokens), SP>> \o Join(Tail(tokens))

---------------------------------------------------------------------------
(* getTeamRoles *)

\* The first loop of getTeamRoles: the default branch of the switch keeps
\* every token that is not a scheme role id, in order.
RECURSIVE explicitRolesOfDropFirst(_)
explicitRolesOfDropFirst(roles) ==
    IF roles = <<>> THEN <<>>
    ELSE IF Head(roles) \in SchemeRoleIds \/ Contains(Tail(roles), Head(roles))
         THEN explicitRolesOfDropFirst(Tail(roles))
         ELSE <<Head(roles)>> \o explicitRolesOfDropFirst(Tail(roles))

RECURSIVE explicitRolesOf(_)
explicitRolesOf(roles) ==
    IF roles = <<>> THEN <<>>
    ELSE IF Head(roles) \in SchemeRoleIds
         THEN explicitRolesOf(Tail(roles))
         ELSE <<Head(roles)>> \o explicitRolesOf(Tail(roles))

\* The first loop of getTeamRoles: a scheme role id among the tokens sets the
\* flag of its level.
resolvedFlagOfTokensOnly(flag, roleId, roles) == Contains(roles, roleId)

resolvedFlag(flag, roleId, roles) == flag \/ Contains(roles, roleId)

\* The role a level implies: the scheme's default role name, or the
\* well-known id when the scheme names none.
impliedRoleFallbackOnly(defaultRole, roleId) == roleId

impliedRole(defaultRole, roleId) ==
    IF defaultRole # "" THEN defaultRole ELSE roleId

\* schemeImpliedRoles of getTeamRoles: guest, user, admin, in this order.
schemeImpliedRoles(g, u, a, defaultGuest, defaultUser, defaultAdmin) ==
    (IF g THEN <<impliedRole(defaultGuest, TEAM_GUEST_ROLE_ID)>> ELSE <<>>)
    \o (IF u THEN <<impliedRole(defaultUser, TEAM_USER_ROLE_ID)>> ELSE <<>>)
    \o (IF a THEN <<impliedRole(defaultAdmin, TEAM_ADMIN_ROLE_ID)>> ELSE <<>>)

\* The last loop of getTeamRoles: each implied role is appended unless the
\* list built so far holds it.
appendImpliedAlways(roles, implied) == roles \o implied

RECURSIVE appendImplied(_, _)
appendImplied(roles, implied) ==
    IF implied = <<>> THEN roles
    ELSE appendImplied(
            IF Contains(roles, Head(implied)) THEN roles
            ELSE Append(roles, Head(implied)),
            Tail(implied))

getTeamRoles(schemeGuest, schemeUser, schemeAdmin, defaultGuest, defaultUser, defaultAdmin, roles) ==
    LET g == resolvedFlag(schemeGuest, TEAM_GUEST_ROLE_ID, roles)
        u == resolvedFlag(schemeUser, TEAM_USER_ROLE_ID, roles)
        a == resolvedFlag(schemeAdmin, TEAM_ADMIN_ROLE_ID, roles)
        explicit == explicitRolesOf(roles)
    IN  [roles |-> appendImplied(explicit,
                     schemeImpliedRoles(g, u, a, defaultGuest, defaultUser, defaultAdmin)),
         explicitRoles |-> explicit,
         schemeGuest |-> g,
         schemeUser |-> u,
         schemeAdmin |-> a]

---------------------------------------------------------------------------
(* The role resolver on every input of a bounded set *)

\* The longest token list given to getTeamRoles.
MaxRoles == 3

\* Role tokens: the three scheme role ids and two other role names.
RoleTokens == SchemeRoleIds \cup {"custom_a", "custom_b"}

\* The default role names a scheme may give: none (""), a name of its own, a
\* name that is also used as an explicit role, and a well-known id.
DefaultRoleNames == {"", "scheme_role", "custom_a", TEAM_USER_ROLE_ID}

RolesInputs ==
    [schemeGuest : BOOLEAN, schemeUser : BOOLEAN, schemeAdmin : BOOLEAN,
     defaultTeamGuestRole : DefaultRoleNames,
     defaultTeamUserRole : DefaultRoleNames,
     defaultTeamAdminRole : DefaultRoleNames,
     roles : SeqsUpTo(RoleTokens, MaxRoles)]

NoRolesInfo ==
    [roles |-> <<>>, explicitRoles |-> <<>>,
     schemeGuest |-> FALSE, schemeUser |-> FALSE, schemeAdmin |-> FALSE]

IdleRoles ==
    /\ rolesPc = "off"
    /\ rolesIn = NIL
    /\ rolesOut = NoRolesInfo

InitRoles ==
    /\ rolesPc = "call"
    /\ rolesIn \in RolesInputs
    /\ rolesOut = NoRolesInfo

CallGetTeamRoles ==
    /\ rolesPc = "call"
    /\ rolesOut' = getTeamRoles(rolesIn.schemeGuest, rolesIn.schemeUser, rolesIn.schemeAdmin,
                                rolesIn.defaultTeamGuestRole, rolesIn.defaultTeamUserRole,
                                rolesIn.defaultTeamAdminRole, rolesIn.roles)
    /\ rolesPc' = "done"
    /\ UNCHANGED rolesIn

---------------------------------------------------------------------------
(* Properties of the role resolver *)

Levels == {"guest", "user", "admin"}

LevelOrder(l) == CASE l = "guest" -> 1 [] l = "user" -> 2 [] l = "admin" -> 3

FallbackId(l) ==
    CASE l = "guest" -> TEAM_GUEST_ROLE_ID
      [] l = "user" -> TEAM_USER_ROLE_ID
      [] l = "admin" -> TEAM_ADMIN_ROLE_ID

InDefault(l) ==
    CASE l = "guest" -> rolesIn.defaultTeamGuestRole
      [] l = "user" -> rolesIn.defaultTeamUserRole
      [] l = "admin" -> rolesIn.defaultTeamAdminRole

OutFlag(l) ==
    CASE l = "guest" -> rolesOut.schemeGuest
      [] l = "user" -> rolesOut.schemeUser
      [] l = "admin" -> rolesOut.schemeAdmin

\* The positions of the input tokens that are not scheme role ids.
NonSchemePositions == {i \in 1..Len(rolesIn.roles) : rolesIn.roles[i] \notin SchemeRoleIds}

\* The role name a level with a true resolved flag stands for.
ImpliedName(l) == IF InDefault(l) # "" THEN InDefault(l) ELSE FallbackId(l)

ActiveLevels == {l \in Levels : OutFlag(l)}

Elements(s) == {s[i] : i \in 1..Len(s)}

\* C8 as stated: the explicit-role list holds exactly the non-scheme tokens,
\* each of them once, in their original relative order.
C8_AsStated ==
    rolesPc = "done" =>
        /\ Elements(rolesOut.explicitRoles) = Elements(rolesIn.roles) \ SchemeRoleIds
        /\ NoDuplicates(rolesOut.explicitRoles)
        /\ \A i, j \in 1..Len(rolesOut.explicitRoles) :
              i < j => \E a, b \in NonSchemePositions :
                          /\ a < b
                          /\ rolesIn.roles[a] = rolesOut.explicitRoles[i]
                          /\ rolesIn.roles[b] = rolesOut.explicitRoles[j]

\* C8 (amended): the explicit-role list is the input token list with the
\* scheme role ids removed and nothing else changed: the k-th token that is
\* not a scheme role id is the k-th explicit role, so a token repeated in the
\* input is repeated in the output.
C8_ExplicitRolesAreTheNonSchemeTokens ==
    rolesPc = "done" =>
        /\ Len(rolesOut.explicitRoles) = Cardinality(NonSchemePositions)
        /\ \A i \in NonSchemePositions :
              rolesOut.explicitRoles[Cardinality({j \in NonSchemePositions : j <= i})]
                  = rolesIn.roles[i]

\* A call whose tokens mix scheme role ids with a repeated other role.
C8_Witness ==
    /\ rolesPc = "done"
    /\ rolesIn.roles = <<"custom_a", TEAM_USER_ROLE_ID, "custom_a">>
    /\ rolesOut.explicitRoles = <<"custom_a", "custom_a">>

\* C9: for each level whose resolved flag is true: with no scheme default
\* name the effective list holds the well-known id exactly once; with a
\* default name it holds that name, and the well-known id of the level is in
\* the list only as the default name some scheme level gives.
C9_ImpliedRoleIsDefaultOrFallback ==
    rolesPc = "done" =>
        \A l \in ActiveLevels :
            IF InDefault(l) = ""
            THEN Count(rolesOut.roles, FallbackId(l)) = 1
            ELSE /\ Contains(rolesOut.roles, InDefault(l))
                 /\ Contains(rolesOut.roles, FallbackId(l)) =>
                        \E k \in ActiveLevels : InDefault(k) = FallbackId(l)

\* A call in which one level falls back to its well-known id and another
\* takes the default name of the scheme.
C9_Witness ==
    /\ rolesPc = "done"
    /\ rolesIn.roles = <<TEAM_GUEST_ROLE_ID>>
    /\ ~rolesIn.schemeGuest /\ rolesIn.schemeUser /\ ~rolesIn.schemeAdmin
    /\ rolesIn.defaultTeamGuestRole = ""
    /\ rolesIn.defaultTeamUserRole = "scheme_role"
    /\ rolesOut.roles = <<TEAM_GUEST_ROLE_ID, "scheme_role">>

\* C10 as stated: no role name occurs twice in the effective list, whatever
\* the input, and the explicit roles come first.
C10_AsStated ==
    rolesPc = "done" =>
        /\ NoDuplicates(rolesOut.roles)
        /\ SubSeq(rolesOut.roles, 1, Len(rolesOut.explicitRoles)) = rolesOut.explicitRoles

\* C10 (amended): the effective list is the explicit-role list followed by
\* the implied role names that the explicit roles do not hold, each once, in
\* guest, user, admin order; it is free of duplicates whenever the explicit
\* roles are.
C10_ImpliedRolesAddedOnce ==
    rolesPc = "done" =>
        LET e == rolesOut.explicitRoles
            r == rolesOut.roles
            added == SubSeq(r, Len(e) + 1, Len(r))
            FirstLevel(name) ==
                CHOOSE l \in ActiveLevels :
                    /\ ImpliedName(l) = name
                    /\ \A k \in ActiveLevels :
                          ImpliedName(k) = name => LevelOrder(l) <= LevelOrder(k)
        IN  /\ Len(r) >= Len(e)
            /\ SubSeq(r, 1, Len(e)) = e
            /\ NoDuplicates(added)
            /\ Elements(added) = {ImpliedName(l) : l \in ActiveLevels} \ Elements(e)
            /\ \A i, j \in 1..Len(added) :
                  i < j => LevelOrder(FirstLevel(added[i])) < LevelOrder(FirstLevel(added[j]))
            /\ NoDuplicates(e) => NoDuplicates(r)

\* A call in which two levels imply the same name, a third implies a name
\* that is already an explicit role, and one explicit role is repeated.
C10_Witness ==
    /\ rolesPc = "done"
    /\ rolesIn.roles = <<"custom_a", "custom_a", TEAM_GUEST_ROLE_ID>>
    /\ rolesIn.schemeUser /\ rolesIn.schemeAdmin
    /\ rolesIn.defaultTeamGuestRole = "scheme_role"
    /\ rolesIn.defaultTeamUserRole = "scheme_role"
    /\ rolesIn.defaultTeamAdminRole = "custom_a"
    /\ rolesOut.roles = <<"custom_a", "custom_a", "scheme_role">>

InFlag(l) ==
    CASE l = "guest" -> rolesIn.schemeGuest
      [] l = "user" -> rolesIn.schemeUser
      [] l = "admin" -> rolesIn.schemeAdmin

\* C30: the resolved flag of a level is true exactly when the input flag of
\* the level is true or the scheme role id of the level is among the input
\* tokens.
C30_FlagIsInputOrToken ==
    rolesPc = "done" =>
        \A l \in Levels :
            OutFlag(l) = (InFlag(l) \/ FallbackId(l) \in Elements(rolesIn.roles))

\* The guest flag came from the input alone, the admin flag from a token
\* alone, and the user flag stayed false beside the tokens of other levels.
C30_Witness ==
    /\ rolesPc = "done"
    /\ rolesIn.schemeGuest /\ ~rolesIn.schemeUser /\ ~rolesIn.schemeAdmin
    /\ Elements(rolesIn.roles) = {TEAM_ADMIN_ROLE_ID, "custom_a"}
    /\ rolesOut.schemeGuest /\ ~rolesOut.schemeUser /\ rolesOut.schemeAdmin

---------------------------------------------------------------------------
(* The TeamMembers table *)

\* The greatest UserId.
MaxUsers == 2

TeamIds == {1, 2}
UserIds == 1..MaxUsers

\* The primary key of TeamMembers: (TeamId, UserId).
Keys == TeamIds \X UserIds

\* sql.NullBool
NullBool == [Valid : BOOLEAN, Bool : BOOLEAN]
NullBoolNull == [Valid |-> FALSE, Bool |-> FALSE]
NullBoolOf(b) == [Valid |-> TRUE, Bool |-> b]

NoRow == [absent |-> TRUE]

\* A teamMember row.
teamMember(teamId, userId, roles, deleteAt, schemeUser, schemeAdmin, schemeGuest) ==
    [TeamId |-> teamId, UserId |-> userId, Roles |-> roles, DeleteAt |-> deleteAt,
     SchemeUser |-> schemeUser, SchemeAdmin |-> schemeAdmin, SchemeGuest |-> schemeGuest]

\* The keys that have a row.
RowKeys(table) == {k \in Keys : table[k] # NoRow}

---------------------------------------------------------------------------
(* MigrateTeamMembers *)

\* The LIMIT of the batch query (100 in the code), scaled down.
MigrateBatchLimit == 2

\* The database failures (begin, select, update or commit) a behaviour meets
\* at most.
MaxFaults == 1

\* The minimal cursor: below every key.
MinCursor == <<0, 0>>

\* ORDER BY TeamId, UserId
KeyLess(a, b) == a[1] < b[1] \/ (a[1] = b[1] /\ a[2] < b[2])

\* WHERE (TeamId, UserId) > (:FromTeamId, :FromUserId): SQL's row comparison.
KeyGreaterBothColumns(k, from) == k[1] > from[1] /\ k[2] > from[2]

KeyGreaterOrEqual(k, from) == k[1] > from[1] \/ (k[1] = from[1] /\ k[2] >= from[2])

KeyGreater(k, from) == k[1] > from[1] \/ (k[1] = from[1] /\ k[2] > from[2])

\* The keys of K in ORDER BY order, cut after limit of them.
RECURSIVE OrderedLimit(_, _)
OrderedLimit(K, limit) ==
    IF K = {} \/ limit = 0 THEN <<>>
    ELSE LET first == CHOOSE k \in K : \A o \in K : o = k \/ KeyLess(k, o)
         IN  <<first>> \o OrderedLimit(K \ {first}, limit - 1)

\* SELECT * from TeamMembers WHERE (TeamId, UserId) > (:FromTeamId, :FromUserId)
\* ORDER BY TeamId, UserId LIMIT 100: the keys of the rows selected.
SelectMigrateBatch(table, from) ==
    OrderedLimit({k \in RowKeys(table) : KeyGreater(k, from)}, MigrateBatchLimit)

\* The loop over the tokens of a row: the tokens that are no scheme role id.
RECURSIVE migrateNewRoles(_)
migrateNewRoles(roles) ==
    IF roles = <<>> THEN <<>>
    ELSE IF Head(roles) = TEAM_ADMIN_ROLE_ID THEN migrateNewRoles(Tail(roles))
    ELSE IF Head(roles) = TEAM_USER_ROLE_ID THEN migrateNewRoles(Tail(roles))
    ELSE IF Head(roles) = TEAM_GUEST_ROLE_ID THEN migrateNewRoles(Tail(roles))
    ELSE <<Head(roles)>> \o migrateNewRoles(Tail(roles))

\* A scheme flag after the loop: a null flag is false, a scheme role id among
\* the tokens makes it true.
migrateFlagOfTokensOnly(flag, roleId, roles) == NullBoolOf(Contains(roles, roleId))

migrateFlag(flag, roleId, roles) ==
    IF Contains(roles, roleId) THEN NullBoolOf(TRUE)
    ELSE IF ~flag.Valid THEN NullBoolOf(FALSE)
    ELSE flag

\* The body of the loop over the batch: the row as transaction.Update writes it.
migrateMember(member) ==
    LET roles == Fields(member.Roles)
    IN  [member EXCEPT
            !.SchemeAdmin = migrateFlag(member.SchemeAdmin, TEAM_ADMIN_ROLE_ID, roles),
            !.SchemeUser = migrateFlag(member.SchemeUser, TEAM_USER_ROLE_ID, roles),
            !.SchemeGuest = migrateFlag(member.SchemeGuest, TEAM_GUEST_ROLE_ID, roles),
            !.Roles = Join(migrateNewRoles(roles))]

\* The table with the rows of the given keys as the loop updates them.
migrateRows(table, keys) ==
    [k \in Keys |-> IF Contains(keys, k) THEN migrateMember(table[k]) ELSE table[k]]

\* The committed rows after updates that were not committed: an update of
\* s.GetMaster() is committed at once, transaction.Update is not.
migMasterUpdate(committed, written) == written

migTransactionUpdate(committed, written) == committed

\* data["TeamId"], data["UserId"]: the key of the last row of the batch.
migrateDataFirstRow(batch) == batch[1]

migrateData(batch) == batch[Len(batch)]

\* The rows a membership table holds before the migration: a legacy row, a
\* legacy row with another role and irregular blanks, and a migrated row.
LegacyRoles == <<TEAM_USER_ROLE_ID, SP, TEAM_ADMIN_ROLE_ID>>
LegacyCustomRoles == <<SP, "custom_a", SP, SP, TEAM_GUEST_ROLE_ID>>

MigrateRowKinds == {"legacy", "legacy_custom", "migrated"}

MigrateRow(k, kind) ==
    CASE kind = "legacy" ->
            teamMember(k[1], k[2], LegacyRoles, 0, NullBoolNull, NullBoolNull, NullBoolNull)
      [] kind = "legacy_custom" ->
            teamMember(k[1], k[2], LegacyCustomRoles, 0, NullBoolOf(TRUE), NullBoolNull, NullBoolNull)
      [] kind = "migrated" ->
            teamMember(k[1], k[2], <<"custom_b">>, 0,
                       NullBoolOf(TRUE), NullBoolOf(FALSE), NullBoolOf(FALSE))
      [] OTHER -> NoRow

\* A nil map[string]string: no entries.
NilData == <<>>

NoResult == [data |-> NilData, err |-> NIL]

IdleMigLoop ==
    /\ migPc = "off"
    /\ migCursor = MinCursor
    /\ migLast = NoResult
    /\ migVisited = <<>>
    /\ migFaults = 0

IdleMig ==
    /\ teamMembers = [k \in Keys |-> NoRow]
    /\ IdleMigLoop

InitMigLoop ==
    /\ migPc = "loop"
    /\ migCursor = MinCursor
    /\ migLast = NoResult
    /\ migVisited = <<>>
    /\ migFaults = 0

InitMig ==
    /\ \E kind \in [Keys -> MigrateRowKinds \cup {"none"}] :
          teamMembers = [k \in Keys |-> MigrateRow(k, kind[k])]
    /\ InitMigLoop

\* The tables of legacy and migrated rows only: the keys decide how the loop
\* proceeds, not what the rows hold.
InitMigLegacy ==
    /\ \E kind \in [Keys -> {"legacy", "migrated", "none"}] :
          teamMembers = [k \in Keys |-> MigrateRow(k, kind[k])]
    /\ InitMigLoop

\* One call of MigrateTeamMembers(migCursor) by the caller's loop, which passes
\* the cursor the previous call returned, repeats the call after an error, and
\* stops at the (nil, nil) result.
MigrateTeamMembers ==
    /\ migPc = "loop"
    /\ LET batch == SelectMigrateBatch(teamMembers, migCursor)
       IN  \/ \* Begin, the select, an update or the commit fails after the
              \* first n rows of the batch were updated: the deferred
              \* finalizeTransaction rolls back; return nil, err.
              /\ migFaults < MaxFaults
              /\ migFaults' = migFaults + 1
              /\ migLast' = [data |-> NilData, err |-> "db_error"]
              /\ \E n \in 0..Len(batch) :
                    teamMembers' = migTransactionUpdate(teamMembers,
                                       migrateRows(teamMembers, SubSeq(batch, 1, n)))
              /\ UNCHANGED <<migPc, migCursor, migVisited>>
           \/ \* No row after the cursor: return nil, nil.
              /\ batch = <<>>
              /\ migLast' = NoResult
              /\ migPc' = "done"
              /\ UNCHANGED <<teamMembers, migCursor, migVisited, migFaults>>
           \/ \* The batch is updated and committed: return data, nil.
              /\ batch # <<>>
              /\ teamMembers' = migrateRows(teamMembers, batch)
              /\ migLast' = [data |-> migrateData(batch), err |-> NIL]
              /\ migCursor' = migrateData(batch)
              /\ migVisited' = migVisited \o batch
              /\ UNCHANGED <<migPc, migFaults>>

---------------------------------------------------------------------------
(* SaveMultipleMembers *)

\* The greatest maxUsersPerTeam a call is given (the least is -1).
MaxLimit == 1

\* An id that is not a well-formed id (not 26 characters long).
BadId == 0

\* A model.TeamMember.
TeamMemberModel(teamId, userId, roles, explicitRoles, schemeGuest, schemeUser, schemeAdmin, deleteAt) ==
    [TeamId |-> teamId, UserId |-> userId, Roles |-> roles, ExplicitRoles |-> explicitRoles,
     SchemeGuest |-> schemeGuest, SchemeUser |-> schemeUser, SchemeAdmin |-> schemeAdmin,
     DeleteAt |-> deleteAt]

\* model.TeamMember.IsValid: both ids are well formed.
IsValid(member) == member.TeamId # BadId /\ member.UserId # BadId

\* The default role names of the scheme of a team, as the roles query joins
\* them: team 1 has no scheme (nulls, read as ""), team 2 has one.
defaultTeamRoles(teamId) ==
    IF teamId = 2
    THEN [Guest |-> "scheme_guest", User |-> "scheme_user", Admin |-> "scheme_admin"]
    ELSE [Guest |-> "", User |-> "", Admin |-> ""]

\* newTeamMembers[teamId]: the members of the batch that join the team.
newTeamMembers(members, teamId) ==
    Cardinality({i \in 1..Len(members) : members[i].TeamId = teamId})

\* teams: the keys of newTeamMembers.
batchTeams(members) == {members[i].TeamId : i \in 1..Len(members)}

\* The count query: the rows of the team with DeleteAt = 0 whose user has a
\* Users row with DeleteAt = 0; a team without such a row has no counter and
\* existingMembers stays 0.
existingMembers(table, active, teamId) ==
    Cardinality({k \in RowKeys(table) :
                    k[1] = teamId /\ table[k].DeleteAt = 0 /\ k[2] \in active})

\* The loop over newTeamMembers after the count query.
limitExceededIgnoringNew(table, active, members, maxUsersPerTeam) ==
    \E teamId \in batchTeams(members) :
        existingMembers(table, active, teamId) > maxUsersPerTeam

limitExceeded(table, active, members, maxUsersPerTeam) ==
    \E teamId \in batchTeams(members) :
        existingMembers(table, active, teamId) + newTeamMembers(members, teamId)
            > maxUsersPerTeam

\* if maxUsersPerTeam >= 0: whether the count query and the limit loop run.
capacityCheckedAlways(maxUsersPerTeam) == TRUE

capacityChecked(maxUsersPerTeam) == maxUsersPerTeam >= 0

\* The key of a member.
memberKey(member) == <<member.TeamId, member.UserId>>

\* Whether the one INSERT statement violates the primary key: a key of the
\* batch has a row, or the batch holds a key twice.
insertViolatesKey(table, members) ==
    \/ \E i \in 1..Len(members) : memberKey(members[i]) \in RowKeys(table)
    \/ \E i, j \in 1..Len(members) : i # j /\ memberKey(members[i]) = memberKey(members[j])

\* teamMemberToSlice: the row inserted for a member.
teamMemberToSlice(member) ==
    teamMember(member.TeamId, member.UserId, member.ExplicitRoles, member.DeleteAt,
               NullBoolOf(member.SchemeUser), NullBoolOf(member.SchemeAdmin),
               NullBoolOf(member.SchemeGuest))

\* The table after the INSERT of the batch.
insertMembers(table, members) ==
    [k \in Keys |->
        IF \E i \in 1..Len(members) : memberKey(members[i]) = k
        THEN teamMemberToSlice(
                members[CHOOSE i \in 1..Len(members) : memberKey(members[i]) = k])
        ELSE table[k]]

\* The member returned for a saved member: its roles resolved by getTeamRoles.
savedMember(member) ==
    LET defaults == defaultTeamRoles(member.TeamId)
        rolesResult == getTeamRoles(member.SchemeGuest, member.SchemeUser, member.SchemeAdmin,
                                    defaults.Guest, defaults.User, defaults.Admin,
                                    Fields(member.ExplicitRoles))
    IN  [member EXCEPT
            !.SchemeGuest = rolesResult.schemeGuest,
            !.SchemeUser = rolesResult.schemeUser,
            !.SchemeAdmin = rolesResult.schemeAdmin,
            !.Roles = Join(rolesResult.roles),
            !.ExplicitRoles = Join(rolesResult.explicitRoles)]

\* The rows of TeamMembers before the call: an active row, a soft-deleted row.
SaveRowKinds == {"active", "deleted"}

SaveRow(k, kind) ==
    CASE kind = "active" ->
            teamMember(k[1], k[2], <<>>, 0,
                       NullBoolOf(TRUE), NullBoolOf(FALSE), NullBoolOf(FALSE))
      [] kind = "deleted" ->
            teamMember(k[1], k[2], <<>>, 1,
                       NullBoolOf(TRUE), NullBoolOf(FALSE), NullBoolOf(FALSE))
      [] OTHER -> NoRow

\* The members a caller saves: a scheme user, a member whose explicit roles
\* still hold a scheme role id, and a member whose UserId is malformed.
PlainMember(k) == TeamMemberModel(k[1], k[2], <<>>, <<>>, FALSE, TRUE, FALSE, 0)
LegacyMember(k) ==
    TeamMemberModel(k[1], k[2], <<>>, <<TEAM_ADMIN_ROLE_ID, SP, "custom_a">>, FALSE, FALSE, FALSE, 0)

SaveMembers ==
    {PlainMember(k) : k \in Keys} \cup {LegacyMember(k) : k \in Keys}
        \cup {PlainMember(<<t, BadId>>) : t \in TeamIds}

\* The batches of a call: one member, or two.
SaveBatches == {<<m>> : m \in SaveMembers} \cup {<<m, n>> : m, n \in SaveMembers}

NoSaveResult == [members |-> NIL, err |-> NIL]

IdleSave ==
    /\ activeUsers = {}
    /\ savePc = "off"
    /\ saveArgs = NIL
    /\ saveRet = NoSaveResult
    /\ saveBefore = NIL

\* Only the first user of a team may have a soft-deleted row, and only the
\* last user may be deactivated.
InitSave ==
    /\ \E kind \in [Keys -> SaveRowKinds \cup {"none"}] :
          /\ \A k \in Keys : kind[k] = "deleted" => k[2] = 1
          /\ teamMembers = [k \in Keys |-> SaveRow(k, kind[k])]
    /\ activeUsers \in {UserIds, UserIds \ {MaxUsers}}
    /\ savePc = "call"
    /\ saveArgs \in [members : SaveBatches, maxUsersPerTeam : -1..MaxLimit]
    /\ saveRet = NoSaveResult
    /\ saveBefore = teamMembers

SaveMultipleMembers ==
    /\ savePc = "call"
    /\ savePc' = "returned"
    /\ UNCHANGED <<activeUsers, saveArgs, saveBefore>>
    /\ LET members == saveArgs.members
           maxUsersPerTeam == saveArgs.maxUsersPerTeam
       IN  IF \E i \in 1..Len(members) : ~IsValid(members[i])
           THEN \* member.IsValid() fails: return nil, err.
                /\ saveRet' = [members |-> NIL, err |-> "invalid"]
                /\ UNCHANGED teamMembers
           ELSE \/ \* A query or the insert fails in the database.
                   /\ saveRet' = [members |-> NIL, err |-> "db_error"]
                   /\ UNCHANGED teamMembers
                \/ IF /\ capacityChecked(maxUsersPerTeam)
                      /\ limitExceeded(teamMembers, activeUsers, members, maxUsersPerTeam)
                   THEN \* return nil, err: err is the nil error of the count query.
                        /\ saveRet' = [members |-> NIL, err |-> NIL]
                        /\ UNCHANGED teamMembers
                   ELSE IF insertViolatesKey(teamMembers, members)
                   THEN /\ saveRet' = [members |-> NIL, err |-> "unique_constraint"]
                        /\ UNCHANGED teamMembers
                   ELSE /\ teamMembers' = insertMembers(teamMembers, members)
                        /\ saveRet' = [members |-> [i \in 1..Len(members) |->
                                                        savedMember(members[i])],
                                       err |-> NIL]

---------------------------------------------------------------------------
(* Properties of SaveMultipleMembers *)

\* The active members of a team: its rows with DeleteAt = 0 of active users.
ActiveMembersOf(table, teamId) ==
    {k \in RowKeys(table) : k[1] = teamId /\ table[k].DeleteAt = 0 /\ k[2] \in activeUsers}

\* The members of the batch of the call that join the team.
JoiningMembers(teamId) ==
    {i \in 1..Len(saveArgs.members) : saveArgs.members[i].TeamId = teamId}

\* The team would hold more than maxUsersPerTeam active members after the call.
WouldExceed(teamId) ==
    /\ JoiningMembers(teamId) # {}
    /\ Cardinality(ActiveMembersOf(saveBefore, teamId)) + Cardinality(JoiningMembers(teamId))
          > saveArgs.maxUsersPerTeam

SaveReturned == savePc = "returned"

\* C1: with maxUsersPerTeam >= 0, a call whose batch would take a team over
\* the limit returns a non-nil error.
C1_OverLimitReturnsError ==
    (SaveReturned /\ saveArgs.maxUsersPerTeam >= 0 /\ \E t \in TeamIds : WouldExceed(t))
        => saveRet.err # NIL

\* C2: when a team of the batch would exceed maxUsersPerTeam, the call leaves
\* TeamMembers as it found it: no row is inserted for any team of the batch.
C2_OverLimitInsertsNothing ==
    (SaveReturned /\ saveArgs.maxUsersPerTeam >= 0 /\ \E t \in TeamIds : WouldExceed(t))
        => teamMembers = saveBefore

\* A call with a valid batch for two teams, one of them at the limit and the
\* other below it with no row for the new member, has returned.
C2_Witness ==
    /\ SaveReturned
    /\ saveArgs.maxUsersPerTeam = 1
    /\ saveRet.err # "db_error"
    /\ Len(saveArgs.members) = 2
    /\ \A i \in 1..2 : IsValid(saveArgs.members[i])
    /\ saveArgs.members[1].TeamId = 1 /\ saveArgs.members[2].TeamId = 2
    /\ WouldExceed(1) /\ ~WouldExceed(2)
    /\ \A i \in 1..2 : saveBefore[memberKey(saveArgs.members[i])] = NoRow
    /\ teamMembers = saveBefore

\* C24: with a negative maxUsersPerTeam a valid batch whose keys have no
\* row is inserted, whatever the number of active members of its teams,
\* unless a statement fails in the database.
C24_NegativeLimitDisablesCheck ==
    (/\ SaveReturned
     /\ saveArgs.maxUsersPerTeam < 0
     /\ \A i \in 1..Len(saveArgs.members) : IsValid(saveArgs.members[i])
     /\ ~insertViolatesKey(saveBefore, saveArgs.members)
     /\ saveRet.err # "db_error")
        => /\ saveRet.err = NIL
           /\ teamMembers = insertMembers(saveBefore, saveArgs.members)
           /\ teamMembers # saveBefore

\* A batch was inserted with maxUsersPerTeam = -1 into a team that then holds
\* more active members than any limit of the model allows.
C24_Witness ==
    /\ SaveReturned
    /\ saveArgs.maxUsersPerTeam = -1
    /\ teamMembers # saveBefore
    /\ \E t \in TeamIds :
          /\ ActiveMembersOf(saveBefore, t) # {}
          /\ JoiningMembers(t) # {}
          /\ Cardinality(ActiveMembersOf(teamMembers, t)) > MaxLimit

\* The role tokens of a Roles column.
RoleTokensOf(roles) == {Fields(roles)[i] : i \in 1..Len(Fields(roles))}

\* The scheme flag of a stored row that stands for a scheme role id.
StoredFlag(row, id) ==
    CASE id = TEAM_GUEST_ROLE_ID -> row.SchemeGuest
      [] id = TEAM_USER_ROLE_ID -> row.SchemeUser
      [] id = TEAM_ADMIN_ROLE_ID -> row.SchemeAdmin

\* The call has inserted its batch.
SaveInserted == SaveReturned /\ teamMembers # saveBefore

\* C11: the row written for a saved member holds no scheme role id among its
\* role tokens, and a scheme role id of the caller's explicit roles is stored
\* as the scheme flag of its level.
C11_StoredRolesHoldNoSchemeRoleId ==
    SaveInserted =>
        \A i \in 1..Len(saveArgs.members) :
            LET member == saveArgs.members[i]
                row == teamMembers[memberKey(member)]
            IN  /\ RoleTokensOf(row.Roles) \cap SchemeRoleIds = {}
                /\ \A id \in RoleTokensOf(member.ExplicitRoles) \cap SchemeRoleIds :
                      StoredFlag(row, id) = NullBoolOf(TRUE)

---------------------------------------------------------------------------
(* InsertIfExists *)

\* The callers that call InsertIfExists concurrently.
NumCallers == 2

Callers == 1..NumCallers

\* The values of system.Value: empty, or one of two values.
SystemValues == {"", "a", "b"}

\* No row for the Name.
Absent == [found |-> FALSE, Value |-> ""]

\* The row of the Name with a value.
SystemRow(value) == [found |-> TRUE, Value |-> value]

\* The zero value of model.System that SelectOne leaves for sql.ErrNoRows.
NoSystem == [found |-> FALSE, Value |-> ""]

\* tx.SelectOne(&origSystem, SELECT * FROM Systems WHERE Name = :Name): the
\* committed row of the Name.
selectSystem(table) == IF table.found THEN table ELSE NoSystem

\* if origSystem.Value != "": a value exists already.
valueExistsRowFound(orig) == orig.found

valueExists(orig) == orig.Value # ""

NoSysResult == [system |-> NIL, err |-> NIL]

IdleSys ==
    /\ systems = Absent
    /\ systemsAtStart = Absent
    /\ sysPc = [p \in Callers |-> "off"]
    /\ sysArg = [p \in Callers |-> ""]
    /\ sysOrig = [p \in Callers |-> NoSystem]
    /\ sysInsertTried = [p \in Callers |-> FALSE]
    /\ sysRet = [p \in Callers |-> NoSysResult]

InitSys ==
    /\ systems \in {Absent} \cup {SystemRow(v) : v \in SystemValues}
    /\ systemsAtStart = systems
    /\ sysPc = [p \in Callers |-> "begin"]
    /\ sysArg \in [Callers -> SystemValues]
    /\ sysOrig = [p \in Callers |-> NoSystem]
    /\ sysInsertTried = [p \in Callers |-> FALSE]
    /\ sysRet = [p \in Callers |-> NoSysResult]

\* BeginTx at the serializable level, then SelectOne; with a value found the
\* call returns it and the deferred finalizeTransaction rolls back.
SysSelect(p) ==
    /\ sysPc[p] = "begin"
    /\ LET orig == selectSystem(systems)
       IN  /\ sysOrig' = [sysOrig EXCEPT ![p] = orig]
           /\ IF valueExists(orig)
              THEN /\ sysRet' = [sysRet EXCEPT ![p] = [system |-> orig.Value, err |-> NIL]]
                   /\ sysPc' = [sysPc EXCEPT ![p] = "done"]
              ELSE /\ sysPc' = [sysPc EXCEPT ![p] = "selected"]
                   /\ UNCHANGED sysRet
    /\ UNCHANGED <<systems, systemsAtStart, sysArg, sysInsertTried>>

\* tx.Insert(system). The Name is the primary key: the insert fails when a
\* committed row has it, and waits while another transaction's insert of it
\* is not yet committed. While another transaction that has read the Name is
\* still open, the database may instead end this one with a serialization
\* failure or as the victim of a deadlock. An error returns nil, err and the
\* deferred finalizeTransaction rolls back.
SysInsert(p) ==
    /\ sysPc[p] = "selected"
    /\ sysInsertTried' = [sysInsertTried EXCEPT ![p] = TRUE]
    /\ \/ /\ systems # Absent
          /\ sysRet' = [sysRet EXCEPT ![p] = [system |-> NIL, err |-> "unique_constraint"]]
          /\ sysPc' = [sysPc EXCEPT ![p] = "done"]
       \/ /\ systems = Absent
          /\ \E q \in Callers \ {p} : sysPc[q] \in {"selected", "inserted"}
          /\ sysRet' = [sysRet EXCEPT ![p] = [system |-> NIL, err |-> "serialization_failure"]]
          /\ sysPc' = [sysPc EXCEPT ![p] = "done"]
       \/ /\ systems = Absent
          /\ \A q \in Callers \ {p} : sysPc[q] # "inserted"
          /\ sysPc' = [sysPc EXCEPT ![p] = "inserted"]
          /\ UNCHANGED sysRet
    /\ UNCHANGED <<systems, systemsAtStart, sysArg, sysOrig>>

\* tx.Commit(): the row is written; return system, nil.
SysCommit(p) ==
    /\ sysPc[p] = "inserted"
    /\ systems' = SystemRow(sysArg[p])
    /\ sysRet' = [sysRet EXCEPT ![p] = [system |-> sysArg[p], err |-> NIL]]
    /\ sysPc' = [sysPc EXCEPT ![p] = "done"]
    /\ UNCHANGED <<systemsAtStart, sysArg, sysOrig, sysInsertTried>>

InsertIfExists == \E p \in Callers : SysSelect(p) \/ SysInsert(p) \/ SysCommit(p)

---------------------------------------------------------------------------
(* Properties of InsertIfExists *)

AllSysDone == \A p \in Callers : sysPc[p] = "done"

\* The callers whose insert was committed.
SysWinners == {p \in Callers : sysInsertTried[p] /\ sysRet[p].err = NIL /\ sysPc[p] = "done"}

\* C5: when the callers race for a Name that has no row (each with a
\* non-empty value), exactly one of them inserts its row and every other
\* caller returns the value of that row, without error.
C5_RaceLosersReturnWinnersValue ==
    (AllSysDone /\ systemsAtStart = Absent /\ \A p \in Callers : sysArg[p] # "")
        => \E w \in Callers :
              /\ SysWinners = {w}
              /\ systems = SystemRow(sysArg[w])
              /\ \A p \in Callers :
                    sysRet[p].err = NIL /\ sysRet[p].system = sysArg[w]

\* C6: a call that finds a row for the Name, whatever its value, returns the
\* value of that row without error and executes no insert, and the row stays
\* as it was; a call inserts only when it found no row.
C6_ExistingRowReturnedUntouched ==
    \A p \in Callers :
        (sysPc[p] = "done" /\ sysOrig[p].found)
            => /\ sysRet[p].err = NIL
               /\ sysRet[p].system = sysOrig[p].Value
               /\ ~sysInsertTried[p]

---------------------------------------------------------------------------
(* SqlJobStore: UpdateOptimistically, UpdateStatusOptimistically *)

\* The calls of a behaviour.
MaxJobCalls == 2

JobIds == {1, 2}

JOB_STATUS_PENDING == "pending"
JOB_STATUS_IN_PROGRESS == "in_progress"
JOB_STATUS_SUCCESS == "success"

JobStatuses == {JOB_STATUS_PENDING, JOB_STATUS_IN_PROGRESS, JOB_STATUS_SUCCESS}

NoJob == [absent |-> TRUE]

\* A row of Jobs: the columns the updates write, and Type for the others.
Job(id, status, data, progress, lastActivityAt, startAt) ==
    [Id |-> id, Type |-> "migrations", Status |-> status, Data |-> data,
     Progress |-> progress, LastActivityAt |-> lastActivityAt, StartAt |-> startAt]

\* WHERE Id = :id AND Status = :currentStatus
jobMatchesIdOnly(table, id, currentStatus) == table[id] # NoJob

jobMatches(table, id, currentStatus) ==
    table[id] # NoJob /\ table[id].Status = currentStatus

\* The row as UpdateOptimistically sets it.
updatedJob(row, job, now) ==
    [row EXCEPT !.LastActivityAt = now, !.Status = job.Status,
                !.Data = job.Data, !.Progress = job.Progress]

\* The row as UpdateStatusOptimistically sets it.
updatedJobStatus(row, newStatus, now) ==
    IF newStatus = JOB_STATUS_IN_PROGRESS
    THEN [row EXCEPT !.LastActivityAt = now, !.Status = newStatus, !.StartAt = now]
    ELSE [row EXCEPT !.LastActivityAt = now, !.Status = newStatus]

\* sqlResult.RowsAffected(): the rows the statement matched; a driver that
\* counts only the rows it changed reports 0 for a matched row that the
\* statement leaves as it was.
rowsAffectedIgnoringMatch(matched, before, after) == {1}

rowsAffected(matched, before, after) ==
    IF ~matched THEN {0}
    ELSE IF before = after THEN {0, 1}
    ELSE {1}

NoJobCall == [op |-> "none"]
NoJobResult == [ok |-> FALSE, err |-> NIL]

IdleJobs ==
    /\ jobs = [id \in JobIds |-> NoJob]
    /\ jobClock = 0
    /\ jobCalls = 0
    /\ jobCall = NoJobCall
    /\ jobLog = <<>>
    /\ jobRet = NoJobResult
    /\ jobsBefore = [id \in JobIds |-> NoJob]

\* Job 1 has a row in any status; job 2 has a pending row or none.
InitJobs ==
    /\ \E st \in JobStatuses, second \in BOOLEAN :
          jobs = [id \in JobIds |->
                    IF id = 1 THEN Job(1, st, "d0", 0, 0, 0)
                    ELSE IF second THEN Job(id, JOB_STATUS_PENDING, "d0", 0, 0, 0)
                    ELSE NoJob]
    /\ jobClock = 0
    /\ jobCalls = 0
    /\ jobCall = NoJobCall
    /\ jobLog = <<>>
    /\ jobRet = NoJobResult
    /\ jobsBefore = jobs

\* The one UPDATE statement of a call and the check of the rows affected.
ExecOptimisticUpdate(call, id, currentStatus, after, now) ==
    /\ jobCalls < MaxJobCalls
    /\ jobCalls' = jobCalls + 1
    /\ jobClock' = now
    /\ jobCall' = call
    /\ jobsBefore' = jobs
    /\ LET matched == jobMatches(jobs, id, currentStatus)
       IN  /\ jobs' = IF matched THEN [jobs EXCEPT ![id] = after] ELSE jobs
           /\ \E rows \in rowsAffected(matched, jobs[id], after) :
                 /\ jobRet' = [ok |-> (rows = 1), err |-> NIL]
                 /\ jobLog' = Append(jobLog, [id |-> id, currentStatus |-> currentStatus,
                                              newStatus |-> call.newStatus, ok |-> (rows = 1)])

\* UpdateOptimistically(job, currentStatus); job carries Id, Status, Data and
\* Progress.
UpdateOptimistically ==
    \E id \in JobIds, currentStatus \in JobStatuses, status \in JobStatuses,
       now \in {jobClock, jobClock + 1} :
        LET job == [Id |-> id, Status |-> status, Data |-> "d1", Progress |-> 1]
        IN  ExecOptimisticUpdate(
                [op |-> "UpdateOptimistically", id |-> id,
                 currentStatus |-> currentStatus, newStatus |-> status],
                id, currentStatus,
                IF jobs[id] = NoJob THEN NoJob ELSE updatedJob(jobs[id], job, now),
                now)

\* UpdateStatusOptimistically(id, currentStatus, newStatus)
UpdateStatusOptimistically ==
    \E id \in JobIds, currentStatus \in JobStatuses, newStatus \in JobStatuses,
       now \in {jobClock, jobClock + 1} :
        ExecOptimisticUpdate(
            [op |-> "UpdateStatusOptimistically", id |-> id,
             currentStatus |-> currentStatus, newStatus |-> newStatus],
            id, currentStatus,
            IF jobs[id] = NoJob THEN NoJob ELSE updatedJobStatus(jobs[id], newStatus, now),
            now)

---------------------------------------------------------------------------
(* Properties of the optimistic updates *)

\* The last call named a status that the row of the job did not have, or a
\* job without a row.
JobCallMismatched ==
    /\ jobCall # NoJobCall
    /\ \/ jobsBefore[jobCall.id] = NoJob
       \/ jobsBefore[jobCall.id].Status # jobCall.currentStatus

\* C7: an optimistic update called with a currentStatus that is not the
\* status of the row, or for a job id without a row, returns false without
\* error and leaves every row of Jobs as it was.
C7_MismatchedStatusChangesNothing ==
    JobCallMismatched => (jobRet = [ok |-> FALSE, err |-> NIL] /\ jobs = jobsBefore)

\* The calls so far for the job.
JobCallsOf(id) == {i \in DOMAIN jobLog : jobLog[i].id = id}

\* Every call so far for the job names currentStatus and a new status that
\* differs from it: the calls compete for one transition and nothing else
\* writes the row.
JobCompeting(id, currentStatus) ==
    \A i \in JobCallsOf(id) :
        /\ jobLog[i].currentStatus = currentStatus
        /\ jobLog[i].newStatus # currentStatus

\* C27: of the calls that compete for one transition of a job at most one
\* returns true, and when a call returns true the row has the status that
\* call set.
C27_SingleWinner ==
    /\ \A id \in JobIds, currentStatus \in JobStatuses :
          JobCompeting(id, currentStatus)
              => Cardinality({i \in JobCallsOf(id) : jobLog[i].ok}) <= 1
    /\ (jobCall # NoJobCall /\ jobRet.ok)
          => jobs[jobCall.id].Status = jobCall.newStatus

\* Two calls compete for the transition of a job; the first won and the
\* second, through the other operation, returned false.
C27_Witness ==
    /\ Len(jobLog) = 2
    /\ jobLog[1].id = jobLog[2].id
    /\ JobCompeting(jobLog[1].id, jobLog[1].currentStatus)
    /\ jobLog[1].ok /\ ~jobLog[2].ok
    /\ jobCall.op = "UpdateStatusOptimistically"
    /\ jobs[jobCall.id].Status = jobLog[1].newStatus

\* An UpdateOptimistically with the wrong currentStatus for a job that an
\* earlier call has updated.
C7_Witness ==
    /\ JobCallMismatched
    /\ jobCall.op = "UpdateOptimistically"
    /\ jobsBefore[jobCall.id] # NoJob
    /\ jobsBefore[jobCall.id].LastActivityAt > 0
    /\ jobCall.newStatus # jobsBefore[jobCall.id].Status
    /\ jobs = jobsBefore
    /\ ~jobRet.ok

---------------------------------------------------------------------------
(* The Teams table: Save, Update, Get, GetByInviteId, GetByName,           *)
(* PermanentDelete                                                         *)

\* The calls of a behaviour, and the PermanentDelete calls of another session.
MaxTeamCalls == 2
MaxTeamDeletes == 1

\* The empty Id of a team that was never saved.
EmptyId == 0

TeamNames == {"a", "b", "c"}
\* A name that model.Team.IsValid rejects.
BadName == ""
InviteIds == {"", "i1", "i2"}

NoTeam == [absent |-> TRUE]

\* A model.Team: what the operations read and write of it.
Team(id, name, inviteId, createAt, updateAt) ==
    [Id |-> id, Name |-> name, InviteId |-> inviteId, CreateAt |-> createAt,
     UpdateAt |-> updateAt]

TeamRows(table) == {id \in TeamIds : table[id] # NoTeam}

\* model.Team.IsValid: the id is well formed and the name is a team name.
TeamIsValid(team) == team.Id \in TeamIds /\ team.Name \in TeamNames

\* model.Team.PreSave: a new id, the creation times, an invite id if none.
TeamPreSave(team, newId, now) ==
    [team EXCEPT !.Id = IF team.Id = EmptyId THEN newId ELSE team.Id,
                 !.CreateAt = now, !.UpdateAt = now,
                 !.InviteId = IF team.InviteId = "" THEN "i2" ELSE team.InviteId]

\* Name is unique: a statement that leaves two rows with one name fails.
teamNameTaken(table, team) ==
    \E id \in TeamRows(table) : id # team.Id /\ table[id].Name = team.Name

\* gorp Get by primary key: the row, or nil without error when there is none.
gorpGet(table, id) == IF id \in TeamIds THEN table[id] ELSE NoTeam

\* gorp SelectOne: sql.ErrNoRows for no row, an error for more than one row.
selectOneTeam(table, matches) ==
    IF matches = {} THEN [team |-> NoTeam, err |-> "sql: no rows in result set"]
    ELSE IF Cardinality(matches) > 1 THEN [team |-> NoTeam, err |-> "multiple rows"]
    ELSE [team |-> table[CHOOSE id \in matches : TRUE], err |-> NIL]

NoTeamCall == [op |-> "none"]
NoTeamResult == [team |-> NoTeam, err |-> NIL]

IdleTeams ==
    /\ teams = [id \in TeamIds |-> NoTeam]
    /\ teamClock = 0
    /\ teamCalls = 0
    /\ teamDeletes = 0
    /\ teamPc = "off"
    /\ teamCall = NoTeamCall
    /\ teamOld = NoTeam
    /\ teamRet = NoTeamResult
    /\ teamsBefore = [id \in TeamIds |-> NoTeam]
    /\ teamStmts = 0
    /\ teamCount = -1

\* Team 1, if saved, is named "a" and team 2 "b"; an earlier Update may have
\* left either with an empty invite id.
InitTeams ==
    /\ \E present \in [TeamIds -> BOOLEAN], invite \in [TeamIds -> {"", "i1"}] :
          teams = [id \in TeamIds |->
                     IF present[id]
                     THEN Team(id, IF id = 1 THEN "a" ELSE "b", invite[id], 1, 1)
                     ELSE NoTeam]
    /\ teamClock = 1
    /\ teamCalls = 0
    /\ teamDeletes = 0
    /\ teamPc = "idle"
    /\ teamCall = NoTeamCall
    /\ teamOld = NoTeam
    /\ teamRet = NoTeamResult
    /\ teamsBefore = teams
    /\ teamStmts = 0
    /\ teamCount = -1

\* A call starts.
TeamCallStarts(call) ==
    /\ teamPc = "idle"
    /\ teamCalls < MaxTeamCalls
    /\ teamCalls' = teamCalls + 1
    /\ teamCall' = call
    /\ teamsBefore' = teams
    /\ teamCount' = -1
    /\ UNCHANGED teamDeletes

\* A call returns after stmts statements.
TeamCallReturns(team, err, stmts) ==
    /\ teamPc' = "idle"
    /\ teamRet' = [team |-> team, err |-> err]
    /\ teamStmts' = stmts

\* Save without its test of the Id.
TeamSaveIgnoringId(team) == FALSE

\* len(team.Id) > 0
TeamSaveHasId(team) == team.Id # EmptyId

\* Save(team)

TeamSave ==
    \E id \in {EmptyId} \cup TeamIds, name \in TeamNames \cup {BadName},
       newId \in TeamIds :
        LET team == Team(id, name, "", 0, 0)
            saved == TeamPreSave(team, newId, teamClock + 1)
        IN  /\ teams[newId] = NoTeam \/ id # EmptyId
            /\ TeamCallStarts([op |-> "Save", team |-> team])
            /\ UNCHANGED teamOld
            /\ IF TeamSaveHasId(team)
               THEN /\ TeamCallReturns(NoTeam, "store.sql_team.save.existing.app_error", 0)
                    /\ UNCHANGED <<teams, teamClock>>
               ELSE IF ~TeamIsValid(saved)
               THEN /\ TeamCallReturns(NoTeam, "invalid", 0)
                    /\ UNCHANGED <<teams, teamClock>>
               ELSE IF saved.Id \in TeamRows(teams) \/ teamNameTaken(teams, saved)
               THEN /\ TeamCallReturns(NoTeam, "unique_constraint", 1)
                    /\ UNCHANGED <<teams, teamClock>>
               ELSE /\ teams' = [teams EXCEPT ![saved.Id] = saved]
                    /\ teamClock' = teamClock + 1
                    /\ TeamCallReturns(saved, NIL, 1)

\* Update(team), up to its Get of the prior row.
TeamUpdateGet ==
    \E id \in {BadId} \cup TeamIds, name \in {"a", "c", BadName}, inviteId \in {"", "i1"} :
        LET team == Team(id, name, inviteId, 0, 0)
            oldResult == gorpGet(teams, id)
        IN  /\ TeamCallStarts([op |-> "Update", team |-> team])
            /\ UNCHANGED <<teams, teamClock>>
            /\ IF ~TeamIsValid(team)
               THEN /\ TeamCallReturns(NoTeam, "invalid", 0)
                    /\ UNCHANGED teamOld
               ELSE IF oldResult = NoTeam
               THEN \* return nil, err: err is the nil error of the Get.
                    /\ TeamCallReturns(NoTeam, NIL, 1)
                    /\ UNCHANGED teamOld
               ELSE /\ teamPc' = "update_write"
                    /\ teamOld' = oldResult
                    /\ teamStmts' = 1
                    /\ UNCHANGED teamRet

\* Update(team), from its UPDATE statement on.
TeamUpdateWrite ==
    /\ teamPc = "update_write"
    /\ LET team == [teamCall.team EXCEPT !.CreateAt = teamOld.CreateAt,
                                         !.UpdateAt = teamClock + 1]
           count == IF team.Id \in TeamRows(teams) THEN 1 ELSE 0
       IN  /\ teamClock' = teamClock + 1
           /\ IF count = 1 /\ teamNameTaken(teams, team)
              THEN /\ TeamCallReturns(NoTeam, "unique_constraint", 2)
                   /\ UNCHANGED <<teams, teamCount>>
              ELSE IF count # 1
              THEN \* return nil, err: err is the nil error of the Update.
                   /\ TeamCallReturns(NoTeam, NIL, 2)
                   /\ teamCount' = count
                   /\ UNCHANGED teams
              ELSE /\ teams' = [teams EXCEPT ![team.Id] = team]
                   /\ teamCount' = count
                   /\ TeamCallReturns(team, NIL, 2)
    /\ UNCHANGED <<teamCalls, teamDeletes, teamCall, teamOld, teamsBefore>>

\* Get(id)
TeamGet ==
    \E id \in TeamIds :
        LET obj == gorpGet(teams, id)
        IN  /\ TeamCallStarts([op |-> "Get", id |-> id])
            /\ UNCHANGED <<teams, teamClock, teamOld>>
            /\ IF obj = NoTeam
               THEN \* return nil, err: err is the nil error of the Get.
                    TeamCallReturns(NoTeam, NIL, 1)
               ELSE TeamCallReturns(obj, NIL, 1)

\* GetByInviteId(inviteId)
TeamGetByInviteId ==
    \E inviteId \in InviteIds :
        LET one == selectOneTeam(teams, {id \in TeamRows(teams) : teams[id].InviteId = inviteId})
        IN  /\ TeamCallStarts([op |-> "GetByInviteId", inviteId |-> inviteId])
            /\ UNCHANGED <<teams, teamClock, teamOld>>
            /\ IF one.err # NIL
               THEN TeamCallReturns(NoTeam, one.err, 1)
               ELSE IF inviteId = "" \/ one.team.InviteId # inviteId
               THEN \* return nil, err: err is the nil error of the SelectOne.
                    TeamCallReturns(NoTeam, NIL, 1)
               ELSE TeamCallReturns(one.team, NIL, 1)

\* GetByName(name)
TeamGetByName ==
    \E name \in TeamNames :
        LET one == selectOneTeam(teams, {id \in TeamRows(teams) : teams[id].Name = name})
        IN  /\ TeamCallStarts([op |-> "GetByName", name |-> name])
            /\ UNCHANGED <<teams, teamClock, teamOld>>
            /\ TeamCallReturns(one.team, one.err, 1)

\* PermanentDelete(teamId) of another session, at any moment.
TeamPermanentDelete ==
    \E teamId \in TeamIds :
        /\ teamPc # "off"
        /\ teamDeletes < MaxTeamDeletes
        /\ teamDeletes' = teamDeletes + 1
        /\ teams' = [teams EXCEPT ![teamId] = NoTeam]
        /\ UNCHANGED <<teamClock, teamCalls, teamPc, teamCall, teamOld, teamRet,
                       teamsBefore, teamStmts, teamCount>>

---------------------------------------------------------------------------
(* SqlPreferenceStore: Save, GetCategory *)

\* The preferences of a batch.
MaxPrefs == 2

DATABASE_DRIVER_MYSQL == "mysql"
DATABASE_DRIVER_POSTGRES == "postgres"
Drivers == {DATABASE_DRIVER_MYSQL, DATABASE_DRIVER_POSTGRES}

\* A model.Preference, also a row of Preferences.
Preference(userId, category, name, value) ==
    [UserId |-> userId, Category |-> category, Name |-> name, Value |-> value]

\* The primary key of Preferences.
PrefKey(preference) == <<preference.UserId, preference.Category, preference.Name>>

PrefKeys == {<<1, "cat", "n1">>, <<1, "cat", "n2">>, <<1, "other", "n1">>}

\* The preferences a caller saves: a value for a key, and a preference whose
\* UserId is malformed.
SavedPreferences ==
    {Preference(k[1], k[2], k[3], v) : k \in PrefKeys, v \in {"v1", "v2"}}
        \cup {Preference(BadId, "cat", "n1", "v1")}

PrefBatches == UNION {[1..n -> SavedPreferences] : n \in 1..MaxPrefs}

\* model.Preference.IsValid: the UserId is well formed.
PreferenceIsValid(preference) == preference.UserId # BadId

\* The rows of a key.
PrefRowsOf(table, key) == {row \in table : PrefKey(row) = key}

\* INSERT ... ON DUPLICATE KEY UPDATE Value = :Value
upsertAlwaysInsert(table, preference) == table \cup {preference}

upsert(table, preference) ==
    (table \ PrefRowsOf(table, PrefKey(preference))) \cup {preference}

\* SELECT count(0) ... WHERE UserId, Category, Name
prefCount(table, preference) == Cardinality(PrefRowsOf(table, PrefKey(preference)))

\* gorp Update by primary key.
updatePref(table, preference) ==
    IF PrefRowsOf(table, PrefKey(preference)) = {} THEN table
    ELSE (table \ PrefRowsOf(table, PrefKey(preference))) \cup {preference}

\* gorp Insert.
insertPref(table, preference) == table \cup {preference}

\* s.save(transaction, preference) on a database that answers: the rows
\* after it, the error and the statements issued.
savePreference(table, preference, driver) ==
    IF ~PreferenceIsValid(preference)
    THEN [table |-> table, err |-> "invalid", stmts |-> 0]
    ELSE IF driver = DATABASE_DRIVER_MYSQL
    THEN [table |-> upsert(table, preference), err |-> NIL, stmts |-> 1]
    ELSE IF prefCount(table, preference) = 1
    THEN [table |-> updatePref(table, preference), err |-> NIL, stmts |-> 2]
    ELSE IF PrefRowsOf(table, PrefKey(preference)) # {}
    THEN [table |-> table, err |-> "store.sql_preference.insert.exists.app_error", stmts |-> 2]
    ELSE [table |-> insertPref(table, preference), err |-> NIL, stmts |-> 2]

\* The committed rows after a statement that wrote `written`: a statement of
\* s.GetMaster() is committed at once, a statement of the transaction is not
\* committed before Commit.
masterExec(committed, written) == written

transactionExec(committed, written) == committed

\* finalizeTransaction: the deferred rollback of a transaction that was not
\* committed leaves the committed rows.
finalizeTransaction(committed, inTx) == committed

\* GetCategory(userId, category): the rows selected.
GetCategoryRows(table, userId, category) ==
    {row \in table : row.UserId = userId /\ row.Category = category}

NoPrefsGot == [userId |-> BadId, category |-> "", rows |-> {}]

IdlePrefs ==
    /\ prefs = {}
    /\ prefTx = {}
    /\ prefPc = "off"
    /\ prefIdx = 0
    /\ prefArgs = NIL
    /\ prefRet = NIL
    /\ prefsBefore = {}
    /\ prefStmts = 0
    /\ prefGot = NoPrefsGot

\* Any of the keys has a row with an earlier value.
InitPrefs ==
    /\ \E keys \in SUBSET PrefKeys :
          prefs = {Preference(k[1], k[2], k[3], "v0") : k \in keys}
    /\ prefTx = prefs
    /\ prefPc = "begin"
    /\ prefIdx = 1
    /\ prefArgs \in [preferences : PrefBatches, driver : Drivers]
    /\ prefRet = NIL
    /\ prefsBefore = prefs
    /\ prefStmts = 0
    /\ prefGot = NoPrefsGot

\* Save returns err; the deferred finalizeTransaction has run.
PrefSaveFails(err) ==
    /\ prefPc' = "done"
    /\ prefRet' = err
    /\ prefs' = finalizeTransaction(prefs, prefTx)
    /\ prefTx' = prefs'

\* Save: s.GetMaster().Begin()
PrefBegin ==
    /\ prefPc = "begin"
    /\ UNCHANGED <<prefIdx, prefArgs, prefsBefore, prefStmts, prefGot>>
    /\ \/ /\ prefPc' = "loop"
          /\ UNCHANGED <<prefs, prefTx, prefRet>>
       \/ \* Begin fails: no transaction.
          /\ prefPc' = "done"
          /\ prefRet' = "db_error"
          /\ UNCHANGED <<prefs, prefTx>>

\* Save: one turn of the loop, s.save(transaction, &preference).
PrefSaveOne ==
    /\ prefPc = "loop"
    /\ prefIdx <= Len(prefArgs.preferences)
    /\ UNCHANGED <<prefArgs, prefsBefore, prefGot>>
    /\ LET saved == savePreference(prefTx, prefArgs.preferences[prefIdx], prefArgs.driver)
       IN  \/ /\ saved.err = NIL
              /\ prefTx' = saved.table
              /\ prefStmts' = prefStmts + saved.stmts
              /\ prefIdx' = prefIdx + 1
              /\ prefPc' = IF prefIdx = Len(prefArgs.preferences) THEN "commit" ELSE "loop"
              /\ prefs' = transactionExec(prefs, saved.table)
              /\ UNCHANGED prefRet
           \/ /\ saved.err # NIL
              /\ prefStmts' = prefStmts + saved.stmts
              /\ PrefSaveFails(saved.err)
              /\ UNCHANGED prefIdx
           \/ \* A statement of the turn fails in the database.
              /\ saved.stmts > 0
              /\ prefStmts' = prefStmts + 1
              /\ PrefSaveFails("db_error")
              /\ UNCHANGED prefIdx

\* Save: transaction.Commit()
PrefCommit ==
    /\ prefPc = "commit"
    /\ UNCHANGED <<prefIdx, prefArgs, prefsBefore, prefStmts, prefGot>>
    /\ \/ /\ prefs' = prefTx
          /\ prefPc' = "done"
          /\ prefRet' = NIL
          /\ UNCHANGED prefTx
       \/ \* Commit fails: the transaction is closed without its writes.
          PrefSaveFails("db_error")

\* GetCategory(userId, category) after Save has returned.
GetCategory ==
    /\ prefPc = "done"
    /\ \E category \in {"cat", "other"} :
          prefGot' = [userId |-> 1, category |-> category,
                      rows |-> GetCategoryRows(prefs, 1, category)]
    /\ UNCHANGED <<prefs, prefTx, prefPc, prefIdx, prefArgs, prefRet, prefsBefore, prefStmts>>

---------------------------------------------------------------------------
(* Properties of Preference Save *)

PrefSaveFailed == prefPc = "done" /\ prefRet # NIL
PrefSaveSucceeded == prefPc = "done" /\ prefRet = NIL

\* C16: when Save returns an error, whether of the validation or of the
\* database, Preferences holds the rows it held before the call, also when
\* earlier preferences of the batch were upserted in the transaction.
C16_FailedSaveLeavesNoWrite ==
    PrefSaveFailed => prefs = prefsBefore

\* Save failed on the validation of its second preference after it had
\* upserted the first, which changed a row in the transaction.
C16_Witness ==
    /\ PrefSaveFailed
    /\ prefRet = "invalid"
    /\ prefStmts > 0
    /\ Len(prefArgs.preferences) = 2
    /\ PreferenceIsValid(prefArgs.preferences[1])
    /\ PrefRowsOf(prefsBefore, PrefKey(prefArgs.preferences[1])) # {}
    /\ prefs = prefsBefore

\* The preferences of the batch that no later preference of the batch
\* overwrites.
LastSaved ==
    {i \in 1..Len(prefArgs.preferences) :
        \A j \in (i + 1)..Len(prefArgs.preferences) :
            PrefKey(prefArgs.preferences[j]) # PrefKey(prefArgs.preferences[i])}

\* C17: after a successful Save, GetCategory returns for every key saved in
\* the category exactly one row, with the value saved last for the key, and
\* no key of the table has two rows.
C17_SaveIsUpsertByKey ==
    (PrefSaveSucceeded /\ prefGot # NoPrefsGot) =>
        /\ \A i \in LastSaved :
              prefArgs.preferences[i].Category = prefGot.category
                  => PrefRowsOf(prefGot.rows, PrefKey(prefArgs.preferences[i]))
                        = {prefArgs.preferences[i]}
        /\ \A row \in prefs : PrefRowsOf(prefs, PrefKey(row)) = {row}

\* On the select-then-insert-or-update path a batch replaced the value of a
\* key that had a row and inserted a key that had none, and GetCategory
\* returned both.
C17_Witness ==
    /\ PrefSaveSucceeded
    /\ prefArgs.driver = DATABASE_DRIVER_POSTGRES
    /\ prefGot.category = "cat"
    /\ Len(prefArgs.preferences) = 2
    /\ prefArgs.preferences[1].Category = "cat"
    /\ prefArgs.preferences[2].Category = "cat"
    /\ PrefRowsOf(prefsBefore, PrefKey(prefArgs.preferences[1])) # {}
    /\ PrefRowsOf(prefsBefore, PrefKey(prefArgs.preferences[2])) = {}
    /\ prefGot.rows = {prefArgs.preferences[1], prefArgs.preferences[2]}

---------------------------------------------------------------------------
(* SqlStatusStore: SaveOrUpdate, Get *)

StatusValues == {"online", "away"}

\* A model.Status, also a row of Status: UserId is the primary key.
Status(userId, status) == [UserId |-> userId, Status |-> status]

StatusRowsOf(table, userId) == {row \in table : row.UserId = userId}

\* gorp Update by primary key.
updateStatusKeepsRow(table, status) == table

updateStatus(table, status) ==
    IF StatusRowsOf(table, status.UserId) = {} THEN table
    ELSE (table \ StatusRowsOf(table, status.UserId)) \cup {status}

\* gorp Insert: the text of the error of the database when the key has a
\* row, in the parts that the code looks for; no text when it succeeds.
insertStatusError(table, status, driver) ==
    IF StatusRowsOf(table, status.UserId) = {} THEN <<>>
    ELSE IF driver = DATABASE_DRIVER_MYSQL
    THEN <<"Duplicate entry", "for key 'PRIMARY'">>
    ELSE <<"duplicate key value violates unique constraint">>

\* strings.Contains(err.Error(), "for key 'PRIMARY'") &&
\* strings.Contains(err.Error(), "Duplicate entry")
isDuplicateEntry(err) ==
    /\ \E i \in 1..Len(err) : err[i] = "for key 'PRIMARY'"
    /\ \E i \in 1..Len(err) : err[i] = "Duplicate entry"

NoStatusGot == [status |-> NIL, err |-> NIL, after |-> -1]

IdleStatus ==
    /\ statusRows = {}
    /\ stDriver = DATABASE_DRIVER_MYSQL
    /\ stPc = [p \in Callers |-> "off"]
    /\ stArg = [p \in Callers |-> ""]
    /\ stRet = [p \in Callers |-> NIL]
    /\ stOrder = <<>>
    /\ stOverlap = FALSE
    /\ stGot = NoStatusGot

\* User 1 has no row, or a row of an earlier call.
InitStatus ==
    /\ statusRows \in {{}, {Status(1, "offline")}}
    /\ stDriver \in Drivers
    /\ stPc = [p \in Callers |-> "call"]
    /\ stArg \in [Callers -> StatusValues]
    /\ stRet = [p \in Callers |-> NIL]
    /\ stOrder = <<>>
    /\ stOverlap = FALSE
    /\ stGot = NoStatusGot

\* SaveOrUpdate returns.
StReturns(p, err) ==
    /\ stPc' = [stPc EXCEPT ![p] = "done"]
    /\ stRet' = [stRet EXCEPT ![p] = err]
    /\ stOrder' = Append(stOrder, p)

\* SaveOrUpdate: the SelectOne of the row of the user.
StSelect(p) ==
    /\ stPc[p] = "call"
    /\ stPc' = [stPc EXCEPT ![p] =
                  IF StatusRowsOf(statusRows, 1) # {} THEN "update" ELSE "insert"]
    /\ stOverlap' = (stOverlap \/ \E q \in Callers : stPc[q] \in {"update", "insert"})
    /\ UNCHANGED <<statusRows, stDriver, stArg, stRet, stOrder, stGot>>

\* SaveOrUpdate: s.GetMaster().Update(status)
StUpdate(p) ==
    /\ stPc[p] = "update"
    /\ statusRows' = updateStatus(statusRows, Status(1, stArg[p]))
    /\ StReturns(p, NIL)
    /\ UNCHANGED <<stDriver, stArg, stOverlap, stGot>>

\* SaveOrUpdate: s.GetMaster().Insert(status) and the test of its error.
StInsert(p) ==
    /\ stPc[p] = "insert"
    /\ UNCHANGED <<stDriver, stArg, stOverlap, stGot>>
    /\ LET err == insertStatusError(statusRows, Status(1, stArg[p]), stDriver)
       IN  IF err = <<>>
           THEN /\ statusRows' = statusRows \cup {Status(1, stArg[p])}
                /\ StReturns(p, NIL)
           ELSE /\ UNCHANGED statusRows
                /\ IF ~isDuplicateEntry(err)
                   THEN StReturns(p, "insert_error")
                   ELSE StReturns(p, NIL)

SaveOrUpdate == \E p \in Callers : StSelect(p) \/ StUpdate(p) \/ StInsert(p)

\* Get(userId)
StatusGet ==
    /\ \E p \in Callers : stPc[p] = "done"
    /\ UNCHANGED <<statusRows, stDriver, stPc, stArg, stRet, stOrder, stOverlap>>
    /\ LET rows == StatusRowsOf(statusRows, 1)
       IN  IF rows = {}
           THEN stGot' = [status |-> NIL, err |-> "sql: no rows in result set",
                          after |-> Len(stOrder)]
           ELSE \E row \in rows :
                   stGot' = [status |-> row.Status, err |-> NIL, after |-> Len(stOrder)]

---------------------------------------------------------------------------
(* Properties of Status SaveOrUpdate *)

AllStatusDone == \A p \in Callers : stPc[p] = "done"

\* The caller whose call returned last.
LastStatusCaller == stOrder[Len(stOrder)]

\* C18: after calls of SaveOrUpdate made one after the other for a user,
\* Status holds exactly one row for the user and a Get after the last call
\* returns the value of the last call.
C18_GetReturnsLatestStatus ==
    (AllStatusDone /\ ~stOverlap /\ stGot.after = Len(stOrder)) =>
        /\ \A p \in Callers : stRet[p] = NIL
        /\ Cardinality(StatusRowsOf(statusRows, 1)) = 1
        /\ stGot.err = NIL
        /\ stGot.status = stArg[LastStatusCaller]

\* The user had no row, the first call inserted one, the last call saved a
\* different value, and Get has returned it.
C18_Witness ==
    /\ AllStatusDone /\ ~stOverlap /\ stGot.after = Len(stOrder)
    /\ stArg[stOrder[1]] # stArg[LastStatusCaller]
    /\ stGot.status = stArg[LastStatusCaller]
    /\ stGot.status # "offline"
    /\ statusRows = {Status(1, stArg[LastStatusCaller])}

\* C19: when every call has returned success, the row of the user holds the
\* value of the call that returned last, also when that call found the key
\* taken by a concurrent insert.
C19_ConflictingInsertIsNotDropped ==
    (AllStatusDone /\ \A p \in Callers : stRet[p] = NIL) =>
        statusRows = {Status(1, stArg[LastStatusCaller])}

---------------------------------------------------------------------------
(* UpdateMultipleMembers *)

\* NewTeamMemberFromModel: the row written for a member.
NewTeamMemberFromModel(tm) ==
    teamMember(tm.TeamId, tm.UserId, tm.ExplicitRoles, tm.DeleteAt,
               NullBoolOf(tm.SchemeUser), NullBoolOf(tm.SchemeAdmin),
               NullBoolOf(tm.SchemeGuest))

\* gorp Update by primary key: the row of the key, if there is one, is
\* replaced.
updateMember(table, tm) ==
    IF memberKey(tm) \in RowKeys(table)
    THEN [table EXCEPT ![memberKey(tm)] = NewTeamMemberFromModel(tm)]
    ELSE table

NoUpdResult == [members |-> <<>>, err |-> NIL]

IdleUpd ==
    /\ updPc = "off"
    /\ updArgs = <<>>
    /\ updIdx = 0
    /\ updRet = NoUpdResult
    /\ updBefore = <<>>
    /\ updStmts = 0

\* Any rows, and any batch of one or two members.
InitUpd ==
    /\ \E kind \in [Keys -> SaveRowKinds \cup {"none"}] :
          /\ \A k \in Keys : kind[k] = "deleted" => k[2] = 1
          /\ teamMembers = [k \in Keys |-> SaveRow(k, kind[k])]
    /\ updPc = "loop"
    /\ updArgs \in SaveBatches
    /\ updIdx = 1
    /\ updRet = NoUpdResult
    /\ updBefore = teamMembers
    /\ updStmts = 0

\* One turn of the first loop: IsValid, then the Update of the member.
UpdMember ==
    /\ updPc = "loop"
    /\ UNCHANGED <<updArgs, updBefore>>
    /\ LET member == updArgs[updIdx]
       IN  IF ~IsValid(member)
           THEN /\ updPc' = "returned"
                /\ updRet' = [members |-> <<>>, err |-> "invalid"]
                /\ UNCHANGED <<teamMembers, updIdx, updStmts>>
           ELSE /\ teamMembers' = updateMember(teamMembers, member)
                /\ updStmts' = updStmts + 1
                /\ updIdx' = updIdx + 1
                /\ updPc' = IF updIdx = Len(updArgs) THEN "roles" ELSE "loop"
                /\ UNCHANGED updRet

\* The roles query and the members returned.
UpdRoles ==
    /\ updPc = "roles"
    /\ updPc' = "returned"
    /\ updStmts' = updStmts + 1
    /\ updRet' = [members |-> [i \in 1..Len(updArgs) |-> savedMember(updArgs[i])],
                  err |-> NIL]
    /\ UNCHANGED <<teamMembers, updArgs, updIdx, updBefore>>

UpdateMultipleMembers == UpdMember \/ UpdRoles

---------------------------------------------------------------------------
(* Properties of UpdateMultipleMembers *)

\* C20: a call of which a member fails IsValid returns the validation
\* failure having issued no statement, and no row was written.
C20_ValidationPrecedesStatements ==
    (updPc = "returned" /\ \E i \in 1..Len(updArgs) : ~IsValid(updArgs[i])) =>
        /\ updRet.err = "invalid"
        /\ updStmts = 0
        /\ teamMembers = updBefore

---------------------------------------------------------------------------
(* Concurrent calls of SaveMultipleMembers *)

\* The batches of the concurrent calls: one valid member, or the two users
\* of a team.
RaceBatches ==
    {<<PlainMember(k)>> : k \in Keys}
        \cup {<<PlainMember(<<t, 1>>), PlainMember(<<t, MaxUsers>>)>> : t \in TeamIds}

\* The active members of a team when every user is active.
ActiveRowsOf(table, teamId) ==
    {k \in RowKeys(table) : k[1] = teamId /\ table[k].DeleteAt = 0}

IdleRace ==
    /\ racePc = [p \in Callers |-> "off"]
    /\ raceArgs = [p \in Callers |-> <<>>]
    /\ raceLimit = -1
    /\ raceRet = [p \in Callers |-> NIL]

\* No team holds more active members than the limit of the calls.
InitRace ==
    /\ raceLimit \in 0..MaxLimit
    /\ \E kind \in [Keys -> {"active", "none"}] :
          teamMembers = [k \in Keys |-> SaveRow(k, kind[k])]
    /\ \A t \in TeamIds : Cardinality(ActiveRowsOf(teamMembers, t)) <= raceLimit
    /\ racePc = [p \in Callers |-> "call"]
    /\ raceArgs \in [Callers -> RaceBatches]
    /\ raceRet = [p \in Callers |-> NIL]

\* SaveMultipleMembers up to the limit loop: the roles query, the count
\* query, and the comparison with maxUsersPerTeam.
RaceCheck(p) ==
    /\ racePc[p] = "call"
    /\ UNCHANGED <<teamMembers, raceArgs, raceLimit>>
    /\ IF /\ capacityChecked(raceLimit)
          /\ limitExceeded(teamMembers, UserIds, raceArgs[p], raceLimit)
       THEN \* return nil, err: err is the nil error of the count query.
            /\ racePc' = [racePc EXCEPT ![p] = "done"]
            /\ raceRet' = [raceRet EXCEPT ![p] = NIL]
       ELSE /\ racePc' = [racePc EXCEPT ![p] = "insert"]
            /\ UNCHANGED raceRet

\* SaveMultipleMembers from the INSERT statement on.
RaceInsert(p) ==
    /\ racePc[p] = "insert"
    /\ racePc' = [racePc EXCEPT ![p] = "done"]
    /\ UNCHANGED <<raceArgs, raceLimit>>
    /\ IF insertViolatesKey(teamMembers, raceArgs[p])
       THEN /\ raceRet' = [raceRet EXCEPT ![p] = "unique_constraint"]
            /\ UNCHANGED teamMembers
       ELSE /\ teamMembers' = insertMembers(teamMembers, raceArgs[p])
            /\ raceRet' = [raceRet EXCEPT ![p] = NIL]

SaveMultipleMembersRace == \E p \in Callers : RaceCheck(p) \/ RaceInsert(p)

\* C26: with concurrent calls that all use the limit raceLimit, no team ever
\* holds more than raceLimit active members.
C26_LimitHoldsUnderInterleaving ==
    (\A p \in Callers : racePc[p] # "off") =>
        \A t \in TeamIds : Cardinality(ActiveRowsOf(teamMembers, t)) <= raceLimit

---------------------------------------------------------------------------
(* applyTeamMemberViewRestrictionsFilter *)

ChannelIds == {1}

\* A []string of model.ViewUsersRestrictions: nil, or a list of ids.
NilList == [isNil |-> TRUE, ids |-> {}]
List(ids) == [isNil |-> FALSE, ids |-> ids]

\* A *model.ViewUsersRestrictions: nil, or its two lists.
NilRestrictions == [isNil |-> TRUE, Teams |-> NilList, Channels |-> NilList]
ViewUsersRestrictions(teamList, channelList) == [isNil |-> FALSE, Teams |-> teamList, Channels |-> channelList]

\* The rows of GetMembers before the filter: the members of the team with
\* DeleteAt = 0.
getMembersQuery(tm, teamId) == {u \in UserIds : tm[<<teamId, u>>] = "active"}

\* JOIN TeamMembers rtm ON (rtm.UserId = ru.Id AND rtm.DeleteAt = 0 AND
\* rtm.TeamId IN (teams)): the rows with at least one such rtm row.
joinAllowedTeams(rows, tm, teamIds) ==
    {u \in rows : \E t \in teamIds : tm[<<t, u>>] = "active"}

\* JOIN ChannelMembers rcm ON (rcm.UserId = ru.Id AND rcm.ChannelId IN
\* (channels)).
joinAllowedChannels(rows, cm, channelIds) ==
    {u \in rows : \E c \in channelIds : <<c, u>> \in cm}

\* The rows the filtered query returns (DISTINCT: each row once).  Every
\* member has a row in Users, so the join with Users ru keeps every row.
applyTeamMemberViewRestrictionsFilter(rows, tm, cm, restrictions) ==
    IF restrictions.isNil
    THEN rows
    ELSE IF /\ ~restrictions.Teams.isNil /\ restrictions.Teams.ids = {}
            /\ ~restrictions.Channels.isNil /\ restrictions.Channels.ids = {}
    THEN {}
    ELSE LET afterTeams ==
                 IF ~restrictions.Teams.isNil /\ restrictions.Teams.ids # {}
                 THEN joinAllowedTeams(rows, tm, restrictions.Teams.ids)
                 ELSE rows
         IN  IF ~restrictions.Channels.isNil /\ restrictions.Channels.ids # {}
             THEN joinAllowedChannels(afterTeams, cm, restrictions.Channels.ids)
             ELSE afterTeams

IdleView ==
    /\ viewPc = "off"
    /\ viewIn = [teamId |-> 0]
    /\ viewOut = {}

InitView ==
    /\ viewPc = "call"
    /\ viewOut = {}
    /\ \E teamId \in TeamIds, tm \in [Keys -> {"none", "active", "deleted"}],
          cm \in SUBSET (ChannelIds \X UserIds),
          r \in {NilRestrictions}
                  \cup {ViewUsersRestrictions(t, c) :
                          t \in {NilList} \cup {List(x) : x \in SUBSET TeamIds},
                          c \in {NilList} \cup {List(x) : x \in SUBSET ChannelIds}} :
          viewIn = [teamId |-> teamId, tm |-> tm, cm |-> cm, restrictions |-> r]

\* GetMembers(teamId, 0, limit, {ViewRestrictions: restrictions}) with a
\* limit above the number of rows.
GetMembers ==
    /\ viewPc = "call"
    /\ viewPc' = "done"
    /\ viewOut' = applyTeamMemberViewRestrictionsFilter(
                      getMembersQuery(viewIn.tm, viewIn.teamId),
                      viewIn.tm, viewIn.cm, viewIn.restrictions)
    /\ UNCHANGED viewIn

\* The user is an active member of an allowed team or a member of an
\* allowed channel.
ViewAllowed(u) ==
    \/ \E t \in viewIn.restrictions.Teams.ids : viewIn.tm[<<t, u>>] = "active"
    \/ \E c \in viewIn.restrictions.Channels.ids : <<c, u>> \in viewIn.cm

\* C25: with no restriction set the query is unchanged; with both lists
\* present but empty the result is empty; otherwise only users who are
\* active members of an allowed team or members of an allowed channel are
\* returned.
C25_FilterNarrowsToAllowedUsers ==
    viewPc = "done" =>
        LET r == viewIn.restrictions
            rows == getMembersQuery(viewIn.tm, viewIn.teamId)
        IN  IF r.isNil
            THEN viewOut = rows
            ELSE IF /\ ~r.Teams.isNil /\ r.Teams.ids = {}
                    /\ ~r.Channels.isNil /\ r.Channels.ids = {}
            THEN viewOut = {}
            ELSE \A u \in viewOut : ViewAllowed(u)

---------------------------------------------------------------------------
(* ClearAllCustomRoleAssignments *)

\* The LIMIT of the batch query (1000 in the code), scaled down.
ClearBatchLimit == 2

\* The names of model.MakeDefaultRoles() that occur in team memberships.
BuiltInRoles == {TEAM_GUEST_ROLE_ID, TEAM_USER_ROLE_ID, TEAM_ADMIN_ROLE_ID}

\* SELECT * from TeamMembers WHERE (TeamId, UserId) > (:TeamId, :UserId)
\* ORDER BY TeamId, UserId LIMIT 1000: the keys of the rows selected.
SelectClearBatch(table, from) ==
    OrderedLimit({k \in RowKeys(table) : KeyGreater(k, from)}, ClearBatchLimit)

\* The loop over strings.Fields(member.Roles): the tokens that are a name of
\* builtInRoles.
clearNewRolesKeepAll(roles) == roles

RECURSIVE clearNewRoles(_)
clearNewRoles(roles) ==
    IF roles = <<>> THEN <<>>
    ELSE IF Head(roles) \in BuiltInRoles THEN <<Head(roles)>> \o clearNewRoles(Tail(roles))
    ELSE clearNewRoles(Tail(roles))

\* The row after the body of the loop over the batch: UPDATE TeamMembers SET
\* Roles = :Roles when newRolesString differs from member.Roles.
clearMember(member) ==
    LET newRolesString == Join(clearNewRoles(Fields(member.Roles)))
    IN  IF newRolesString # member.Roles
        THEN [member EXCEPT !.Roles = newRolesString]
        ELSE member

\* The table with the rows of the given keys as the loop leaves them.
clearRows(table, keys) ==
    [k \in Keys |-> IF Contains(keys, k) THEN clearMember(table[k]) ELSE table[k]]

\* defer finalizeTransaction(transaction)
deferNothing(deferred, tx) == deferred

deferFinalize(deferred, tx) == Append(deferred, tx)

\* The deferred calls at the return of the function: finalizeTransaction
\* rolls a transaction back unless it is already committed.
finalizeDeferred(open, deferred) ==
    open \ {deferred[i] : i \in 1..Len(deferred)}

ClearRowKinds == {"built_in", "custom", "blanks", "only_custom"}

ClearRow(k, kind) ==
    CASE kind = "built_in" ->
            teamMember(k[1], k[2], <<TEAM_USER_ROLE_ID, SP, TEAM_ADMIN_ROLE_ID>>, 0,
                       NullBoolNull, NullBoolNull, NullBoolNull)
      [] kind = "custom" ->
            teamMember(k[1], k[2],
                       <<"custom_a", SP, TEAM_ADMIN_ROLE_ID, SP, "custom_b", SP, TEAM_USER_ROLE_ID>>,
                       0, NullBoolNull, NullBoolNull, NullBoolNull)
      [] kind = "blanks" ->
            teamMember(k[1], k[2], <<SP, TEAM_USER_ROLE_ID, SP, SP, TEAM_GUEST_ROLE_ID>>, 0,
                       NullBoolOf(TRUE), NullBoolNull, NullBoolNull)
      [] kind = "only_custom" ->
            teamMember(k[1], k[2], <<"custom_a">>, 0,
                       NullBoolOf(TRUE), NullBoolOf(FALSE), NullBoolOf(FALSE))
      [] OTHER -> NoRow

IdleClear ==
    /\ clrPc = "off"
    /\ clrCursor = MinCursor
    /\ clrTx = [k \in Keys |-> NoRow]
    /\ clrNext = 0
    /\ clrOpen = {}
    /\ clrDeferred = <<>>
    /\ clrRet = NIL
    /\ clrBefore = [k \in Keys |-> NoRow]

InitClear ==
    /\ \E kind \in [Keys -> ClearRowKinds \cup {"none"}] :
          teamMembers = [k \in Keys |-> ClearRow(k, kind[k])]
    /\ clrPc = "begin"
    /\ clrCursor = MinCursor
    /\ clrTx = teamMembers
    /\ clrNext = 0
    /\ clrOpen = {}
    /\ clrDeferred = <<>>
    /\ clrRet = NIL
    /\ clrBefore = teamMembers

\* `return err` or `return nil`: the deferred calls run.
ClearReturn(err) ==
    /\ clrPc' = "done"
    /\ clrRet' = err
    /\ clrOpen' = finalizeDeferred(clrOpen, clrDeferred)
    /\ clrTx' = teamMembers
    /\ UNCHANGED <<teamMembers, clrCursor, clrNext, clrDeferred, clrBefore>>

\* The head of the loop: s.GetMaster().Begin() and the defer.
ClearBegin ==
    /\ clrPc = "begin"
    /\ \/ ClearReturn("db_error")
       \/ /\ clrPc' = "batch"
          /\ clrNext' = clrNext + 1
          /\ clrOpen' = clrOpen \cup {clrNext + 1}
          /\ clrDeferred' = deferFinalize(clrDeferred, clrNext + 1)
          /\ clrTx' = teamMembers
          /\ UNCHANGED <<teamMembers, clrCursor, clrRet, clrBefore>>

\* The select of the batch and the loop over it.
ClearBatch ==
    /\ clrPc = "batch"
    /\ LET batch == SelectClearBatch(clrTx, clrCursor)
       IN  \/ \* The select or an update fails.
              ClearReturn("db_error")
           \/ \* len(teamMembers) == 0: break, return nil.
              /\ batch = <<>>
              /\ ClearReturn(NIL)
           \/ /\ batch # <<>>
              /\ clrPc' = "commit"
              /\ clrTx' = clearRows(clrTx, batch)
              /\ clrCursor' = batch[Len(batch)]
              /\ UNCHANGED <<teamMembers, clrNext, clrOpen, clrDeferred, clrRet, clrBefore>>

\* transaction.Commit()
ClearCommit ==
    /\ clrPc = "commit"
    /\ \/ ClearReturn("db_error")
       \/ /\ clrPc' = "begin"
          /\ teamMembers' = clrTx
          /\ clrOpen' = clrOpen \ {clrNext}
          /\ UNCHANGED <<clrCursor, clrTx, clrNext, clrDeferred, clrRet, clrBefore>>

ClearAllCustomRoleAssignments == ClearBegin \/ ClearBatch \/ ClearCommit

RECURSIVE IsSubSeq(_, _)
IsSubSeq(a, b) ==
    IF a = <<>> THEN TRUE
    ELSE IF b = <<>> THEN FALSE
    ELSE IF Head(a) = Head(b) THEN IsSubSeq(Tail(a), Tail(b))
    ELSE IsSubSeq(a, Tail(b))

\* The row holds built-in tokens only: those of the row before, all of them
\* and in their order; its other columns are as before; a row that held
\* built-in tokens only keeps its tokens, and keeps its Roles if they were
\* separated by single blanks.
ClearedRow(before, after) ==
    LET old == Fields(before.Roles)
        new == Fields(after.Roles)
    IN  /\ \A i \in 1..Len(new) : new[i] \in BuiltInRoles
        /\ IsSubSeq(new, old)
        /\ \A r \in BuiltInRoles : Count(new, r) = Count(old, r)
        /\ [after EXCEPT !.Roles = before.Roles] = before
        /\ (\A i \in 1..Len(old) : old[i] \in BuiltInRoles) => new = old
        /\ ((\A i \in 1..Len(old) : old[i] \in BuiltInRoles) /\ before.Roles = Join(old))
              => after = before

---------------------------------------------------------------------------
(* Properties of the Teams operations *)

\* The last call has returned.
TeamReturned == teamPc = "idle" /\ teamCall # NoTeamCall

\* The rows that the lookup of the last call was asked for.
LookupMatches ==
    CASE teamCall.op = "Get" ->
            {id \in TeamRows(teamsBefore) : id = teamCall.id}
      [] teamCall.op = "GetByName" ->
            {id \in TeamRows(teamsBefore) : teamsBefore[id].Name = teamCall.name}
      [] teamCall.op = "GetByInviteId" ->
            {id \in TeamRows(teamsBefore) : teamsBefore[id].InviteId = teamCall.inviteId}
      [] OTHER -> {}

\* C12: Get, GetByName and GetByInviteId called when no row matches return
\* a non-nil error.
C12_MissingTeamIsAnError ==
    (/\ TeamReturned
     /\ teamCall.op \in {"Get", "GetByName", "GetByInviteId"}
     /\ LookupMatches = {})
        => teamRet.err # NIL

\* The last call was an Update that has returned.
UpdateReturned == TeamReturned /\ teamCall.op = "Update"

\* No row of Teams was written since the last call started: every row is as
\* the call found it.
NoTeamWritten == \A id \in TeamRows(teams) : teams[id] = teamsBefore[id]

\* C13: Update of a team whose id had no row returns a non-nil error and
\* writes nothing.
C13_UpdateOfMissingTeamFails ==
    (/\ UpdateReturned
     /\ teamCall.team.Id \in TeamIds
     /\ teamsBefore[teamCall.team.Id] = NoTeam)
        => (teamRet.err # NIL /\ NoTeamWritten)

\* C14: Update whose UPDATE statement affected no row returns a non-nil
\* error.
C14_UpdateOfNoRowFails ==
    (UpdateReturned /\ teamCount = 0) => teamRet.err # NIL

\* C15: Save of a team that carries an Id returns the caller error without
\* a statement issued, and no row of Teams is written.
C15_SaveWithIdIsRejected ==
    (/\ TeamReturned
     /\ teamCall.op = "Save"
     /\ teamCall.team.Id # EmptyId)
        => /\ teamRet = [team |-> NoTeam, err |-> "store.sql_team.save.existing.app_error"]
           /\ teamStmts = 0
           /\ NoTeamWritten

\* The second call was a Save of a valid team with a free name, carrying an
\* Id that has no row.
C15_Witness ==
    /\ TeamReturned
    /\ teamCalls = 2
    /\ teamCall.op = "Save"
    /\ teamCall.team.Id \in TeamIds
    /\ teamCall.team.Name \in TeamNames
    /\ teamsBefore[teamCall.team.Id] = NoTeam
    /\ ~teamNameTaken(teamsBefore, teamCall.team)
    /\ teamRet.err = "store.sql_team.save.existing.app_error"
    /\ teams = teamsBefore

---------------------------------------------------------------------------
(* Properties of the migration loop *)

\* teamMemberWithSchemeRoles.ToModel: the row joined with the default role
\* names of the scheme of its team, mapped to a model.TeamMember.
ToModel(db) ==
    LET defaults == defaultTeamRoles(db.TeamId)
        rolesResult == getTeamRoles(db.SchemeGuest.Valid /\ db.SchemeGuest.Bool,
                                    db.SchemeUser.Valid /\ db.SchemeUser.Bool,
                                    db.SchemeAdmin.Valid /\ db.SchemeAdmin.Bool,
                                    defaults.Guest, defaults.User, defaults.Admin,
                                    Fields(db.Roles))
    IN  TeamMemberModel(db.TeamId, db.UserId, Join(rolesResult.roles),
                        Join(rolesResult.explicitRoles), rolesResult.schemeGuest,
                        rolesResult.schemeUser, rolesResult.schemeAdmin, db.DeleteAt)

\* C22: a call that returns an error leaves every row as it was, whatever
\* part of the batch it had updated, and returns no cursor; the cursor of the
\* caller stays.
C22_FailedBatchLeavesNoWrite ==
    [][migLast'.err # NIL =>
          /\ teamMembers' = teamMembers
          /\ migLast'.data = NilData
          /\ migCursor' = migCursor
          /\ migVisited' = migVisited
      ]_vars

\* A call failed on a later batch that holds a legacy row, which is still to
\* be migrated from the same cursor.
C22_Witness ==
    /\ migLast.err = "db_error"
    /\ migFaults > 0
    /\ migVisited # <<>>
    /\ LET batch == SelectMigrateBatch(teamMembers, migCursor)
       IN  /\ batch # <<>>
           /\ migrateRows(teamMembers, batch) # teamMembers

\* The keys that the step from this state processes, in the order of their
\* processing.
BatchOfStep == SubSeq(migVisited', Len(migVisited) + 1, Len(migVisited'))

\* C29: a call that finds rows processes at most MigrateBatchLimit of them,
\* the smallest rows above the cursor it was given, in increasing order; it
\* returns the key of the last of them, which is above the cursor it was
\* given, and changes no other row.
C29_BatchIsNextRowsAboveCursor ==
    [][migVisited' # migVisited =>
          LET batch == BatchOfStep
              last == batch[Len(batch)]
          IN  /\ Len(batch) \in 1..MigrateBatchLimit
              /\ \A i \in 1..Len(batch) :
                    batch[i] \in RowKeys(teamMembers) /\ KeyLess(migCursor, batch[i])
              /\ \A i, j \in 1..Len(batch) : i < j => KeyLess(batch[i], batch[j])
              /\ \A k \in RowKeys(teamMembers) :
                    (KeyLess(migCursor, k) /\ ~Contains(batch, k)) => KeyLess(last, k)
              /\ migLast' = [data |-> last, err |-> NIL]
              /\ migCursor' = last
              /\ KeyLess(migCursor, migCursor')
              /\ \A k \in Keys : ~Contains(batch, k) => teamMembers'[k] = teamMembers[k]
      ]_vars

\* A second call has processed the rows that the limit kept out of the
\* first, and a row at its cursor had been rewritten by the first.
C29_Witness ==
    /\ Len(migVisited) > MigrateBatchLimit
    /\ migLast = [data |-> migVisited[Len(migVisited)], err |-> NIL]
    /\ migCursor = migVisited[Len(migVisited)]
    /\ migPc = "loop"
    /\ teamMembers[migVisited[MigrateBatchLimit]].Roles = <<"custom_a">>

\* The keys of the rows that the step from this state migrates.
MigratedByStep == {k \in Keys : Contains(migVisited', k) /\ ~Contains(migVisited, k)}

\* C28: a row that a call migrates is written with the explicit roles and the
\* resolved flags that ToModel computed for it; ToModel of every row is the
\* same before and after the call; and migrating the written row again would
\* leave it as it is.
C28_MigrationAgreesWithResolver ==
    [][/\ \A k \in MigratedByStep :
             LET before == ToModel(teamMembers[k])
                 after == teamMembers'[k]
             IN  /\ after.Roles = before.ExplicitRoles
                 /\ after.SchemeGuest = NullBoolOf(before.SchemeGuest)
                 /\ after.SchemeUser = NullBoolOf(before.SchemeUser)
                 /\ after.SchemeAdmin = NullBoolOf(before.SchemeAdmin)
                 /\ migrateMember(after) = after
       /\ \A k \in RowKeys(teamMembers) : ToModel(teamMembers'[k]) = ToModel(teamMembers[k])
      ]_vars

\* A legacy row with a set user flag, irregular blanks, a custom role and the
\* guest role id has been migrated.
C28_Witness ==
    \E k \in Keys :
        /\ Contains(migVisited, k)
        /\ teamMembers[k] # NoRow
        /\ teamMembers[k].Roles = <<"custom_a">>
        /\ teamMembers[k].SchemeGuest = NullBoolOf(TRUE)
        /\ teamMembers[k].SchemeUser = NullBoolOf(TRUE)
        /\ teamMembers[k].SchemeAdmin = NullBoolOf(FALSE)

\* C3: the calls driven by the returned cursor visit every membership row
\* exactly once, in strictly increasing (TeamId, UserId) order: the keys
\* visited so far are strictly increasing, they are exactly the rows at or
\* below the cursor, and when the loop ends they are all the rows.
C3_EveryRowVisitedOnceInOrder ==
    /\ \A i \in 1..(Len(migVisited) - 1) : KeyLess(migVisited[i], migVisited[i + 1])
    /\ Elements(migVisited) =
          {k \in RowKeys(teamMembers) : k = migCursor \/ KeyLess(k, migCursor)}
    /\ migPc = "done" => Elements(migVisited) = RowKeys(teamMembers)

\* The loop has ended after more than one batch over rows of both teams.
C3_Witness ==
    /\ migPc = "done"
    /\ Len(migVisited) > MigrateBatchLimit
    /\ \E i, j \in 1..Len(migVisited) : migVisited[i][1] # migVisited[j][1]

\* C4: the loop ends with the (nil, nil) result, and that result is returned
\* only for a cursor that no row lies above.
C4_MigrationTerminates ==
    /\ <>(migPc = "done")
    /\ [](migPc = "done" =>
            /\ migLast = NoResult
            /\ \A k \in RowKeys(teamMembers) : ~KeyLess(migCursor, k))

\* The loop has ended after a failed call and at least two batches.
C4_Witness ==
    /\ migPc = "done"
    /\ migLast = NoResult
    /\ migFaults > 0
    /\ Len(migVisited) > MigrateBatchLimit
    /\ migCursor = migVisited[Len(migVisited)]

---------------------------------------------------------------------------
(* Specifications *)

\* getTeamRoles on every input.
InitSpecRoles == InitRoles /\ IdleMig /\ IdleSave /\ IdleSys /\ IdleJobs /\ IdleTeams /\ IdlePrefs /\ IdleStatus /\ IdleUpd /\ IdleRace /\ IdleView /\ IdleClear

NextRoles == CallGetTeamRoles /\ UNCHANGED <<varsMig, varsSave, varsSys, varsJobs, varsTeams, varsPrefs, varsStatus, varsUpd, varsRace, varsView, varsClear>>

SpecRoles == InitSpecRoles /\ [][NextRoles]_vars

\* The caller's loop over MigrateTeamMembers.
InitSpecMigrate == InitMig /\ IdleRoles /\ IdleSave /\ IdleSys /\ IdleJobs /\ IdleTeams /\ IdlePrefs /\ IdleStatus /\ IdleUpd /\ IdleRace /\ IdleView /\ IdleClear

NextMig == MigrateTeamMembers /\ UNCHANGED <<varsRoles, varsSave, varsSys, varsJobs, varsTeams, varsPrefs, varsStatus, varsUpd, varsRace, varsView, varsClear>>

SpecMigrate == InitSpecMigrate /\ [][NextMig]_vars

\* The caller's loop keeps calling until the (nil, nil) result.
InitFairSpecMigrate == InitMigLegacy /\ IdleRoles /\ IdleSave /\ IdleSys /\ IdleJobs /\ IdleTeams /\ IdlePrefs /\ IdleStatus /\ IdleUpd /\ IdleRace /\ IdleView /\ IdleClear

FairSpecMigrate == InitFairSpecMigrate /\ [][NextMig]_vars /\ WF_vars(NextMig)

\* One call of SaveMultipleMembers.
InitSpecSave == InitSave /\ IdleRoles /\ IdleMigLoop /\ IdleSys /\ IdleJobs /\ IdleTeams /\ IdlePrefs /\ IdleStatus /\ IdleUpd /\ IdleRace /\ IdleView /\ IdleClear

NextSave ==
    /\ SaveMultipleMembers
    /\ UNCHANGED <<varsRoles, migPc, migCursor, migLast, migVisited, migFaults,
                   varsSys, varsJobs, varsTeams, varsPrefs, varsStatus, varsUpd, varsRace, varsView, varsClear>>

SpecSave == InitSpecSave /\ [][NextSave]_vars

\* Concurrent calls of InsertIfExists.
InitSpecSystem == InitSys /\ IdleRoles /\ IdleMig /\ IdleSave /\ IdleJobs /\ IdleTeams /\ IdlePrefs /\ IdleStatus /\ IdleUpd /\ IdleRace /\ IdleView /\ IdleClear

NextSystem == InsertIfExists /\ UNCHANGED <<varsRoles, varsMig, varsSave, varsJobs, varsTeams, varsPrefs, varsStatus, varsUpd, varsRace, varsView, varsClear>>

SpecSystem == InitSpecSystem /\ [][NextSystem]_vars

\* Calls of the optimistic updates of the job store.
InitSpecJobs == InitJobs /\ IdleRoles /\ IdleMig /\ IdleSave /\ IdleSys /\ IdleTeams /\ IdlePrefs /\ IdleStatus /\ IdleUpd /\ IdleRace /\ IdleView /\ IdleClear

NextJobs ==
    /\ UpdateOptimistically \/ UpdateStatusOptimistically
    /\ UNCHANGED <<varsRoles, varsMig, varsSave, varsSys, varsTeams, varsPrefs, varsStatus, varsUpd, varsRace, varsView, varsClear>>

SpecJobs == InitSpecJobs /\ [][NextJobs]_vars

\* Calls of the Teams operations, with PermanentDelete from another session.
InitSpecTeams == InitTeams /\ IdleRoles /\ IdleMig /\ IdleSave /\ IdleSys /\ IdleJobs /\ IdlePrefs /\ IdleStatus /\ IdleUpd /\ IdleRace /\ IdleView /\ IdleClear

NextTeams ==
    /\ \/ TeamSave \/ TeamUpdateGet \/ TeamUpdateWrite \/ TeamGet
       \/ TeamGetByInviteId \/ TeamGetByName \/ TeamPermanentDelete
    /\ UNCHANGED <<varsRoles, varsMig, varsSave, varsSys, varsJobs, varsPrefs, varsStatus, varsUpd, varsRace, varsView, varsClear>>

SpecTeams == InitSpecTeams /\ [][NextTeams]_vars

\* One call of Preference Save, then calls of GetCategory.
InitSpecPrefs == InitPrefs /\ IdleRoles /\ IdleMig /\ IdleSave /\ IdleSys /\ IdleJobs /\ IdleTeams /\ IdleStatus /\ IdleUpd /\ IdleRace /\ IdleView /\ IdleClear

NextPrefs ==
    /\ PrefBegin \/ PrefSaveOne \/ PrefCommit \/ GetCategory
    /\ UNCHANGED <<varsRoles, varsMig, varsSave, varsSys, varsJobs, varsTeams, varsStatus, varsUpd, varsRace, varsView, varsClear>>

SpecPrefs == InitSpecPrefs /\ [][NextPrefs]_vars

\* Concurrent calls of Status SaveOrUpdate, and calls of Get.
InitSpecStatus == InitStatus /\ IdleRoles /\ IdleMig /\ IdleSave /\ IdleSys /\ IdleJobs /\ IdleTeams /\ IdlePrefs /\ IdleUpd /\ IdleRace /\ IdleView /\ IdleClear

NextStatus ==
    /\ SaveOrUpdate \/ StatusGet
    /\ UNCHANGED <<varsRoles, varsMig, varsSave, varsSys, varsJobs, varsTeams, varsPrefs, varsUpd, varsRace, varsView, varsClear>>

SpecStatus == InitSpecStatus /\ [][NextStatus]_vars

\* One call of UpdateMultipleMembers.
InitSpecUpdate == InitUpd /\ IdleRoles /\ IdleMigLoop /\ IdleSave /\ IdleSys /\ IdleJobs /\ IdleTeams /\ IdlePrefs /\ IdleStatus /\ IdleRace /\ IdleView /\ IdleClear

NextUpdate ==
    /\ UpdateMultipleMembers
    /\ UNCHANGED <<varsRoles, migPc, migCursor, migLast, migVisited, migFaults,
                   varsSave, varsSys, varsJobs, varsTeams, varsPrefs, varsStatus, varsRace, varsView, varsClear>>

SpecUpdate == InitSpecUpdate /\ [][NextUpdate]_vars

\* Concurrent calls of SaveMultipleMembers with one limit.
InitSpecSaveRace == InitRace /\ IdleRoles /\ IdleMigLoop /\ IdleSave /\ IdleSys /\ IdleJobs /\ IdleTeams /\ IdlePrefs /\ IdleStatus /\ IdleUpd /\ IdleView /\ IdleClear

NextSaveRace ==
    /\ SaveMultipleMembersRace
    /\ UNCHANGED <<varsRoles, migPc, migCursor, migLast, migVisited, migFaults,
                   varsSave, varsSys, varsJobs, varsTeams, varsPrefs, varsStatus, varsUpd, varsView, varsClear>>

SpecSaveRace == InitSpecSaveRace /\ [][NextSaveRace]_vars

\* GetMembers under view restrictions.
InitSpecView == InitView /\ IdleRoles /\ IdleMig /\ IdleSave /\ IdleSys /\ IdleJobs /\ IdleTeams /\ IdlePrefs /\ IdleStatus /\ IdleUpd /\ IdleRace /\ IdleClear

NextView ==
    /\ GetMembers
    /\ UNCHANGED <<varsRoles, varsMig, varsSave, varsSys, varsJobs, varsTeams,
                   varsPrefs, varsStatus, varsUpd, varsRace, varsClear>>

SpecView == InitSpecView /\ [][NextView]_vars

\* One call of ClearAllCustomRoleAssignments.
InitSpecClear == InitClear /\ IdleRoles /\ IdleMigLoop /\ IdleSave /\ IdleSys /\ IdleJobs /\ IdleTeams /\ IdlePrefs /\ IdleStatus /\ IdleUpd /\ IdleRace /\ IdleView

NextClear ==
    /\ ClearAllCustomRoleAssignments
    /\ UNCHANGED <<varsRoles, migPc, migCursor, migLast, migVisited, migFaults,
                   varsSave, varsSys, varsJobs, varsTeams, varsPrefs, varsStatus, varsUpd,
                   varsRace, varsView>>

SpecClear == InitSpecClear /\ [][NextClear]_vars

\* The call runs on: each statement returns.
FairSpecClear == InitSpecClear /\ [][NextClear]_vars /\ WF_vars(NextClear)

=============================================================================
